---- MODULE Spec2Model ----
(***************************************************************************)
(* Verification model of the WEATHER-VESSEL marine forecast core.          *)
(*                                                                         *)
(*   Spec        ProviderManager.fetch_with_fallback over ForecastCache    *)
(*               (src/src/wv/providers/manager.py, src/src/wv/utils/       *)
(*               cache.py): one request at a time, one provider call per   *)
(*               step, a wall clock that may advance between steps.        *)
(*   SpecFusion  decide_and_eta (src/src/wv/core/fusion.py), a pure        *)
(*               function applied to inputs drawn from bounded sets.       *)
(*   SpecCache   ForecastCache.save and ForecastCache.load run by two      *)
(*               processes on one cache directory.                         *)
(*   SpecSlots   fetch_with_fallback called for neighbouring places and    *)
(*               hours over one cache directory.                           *)
(*   SpecEri, SpecQc, SpecEnsemble, SpecBias                               *)
(*               the pure functions of src/src/marine_ops.                 *)
(***************************************************************************)
EXTENDS Integers, Sequences, FiniteSets, TLC

VARIABLES
    providers,          \* ProviderManager.providers (configured order)
    ttl_seconds,        \* ForecastCache.ttl_seconds
    stale_ttl_seconds,  \* ForecastCache.stale_ttl_seconds
    files,              \* cache directory: digest -> file content
    now,                \* wall clock, datetime.now(timezone.utc)
    pc,                 \* position of fetch_with_fallback
    req,                \* arguments of the request in flight (lat, lon, hours)
    cached,             \* local variable `cached`
    idx,                \* position of the for loop over self.providers
    last_error,         \* local variable `last_error`
    result,             \* how the call ended
    calls,              \* history: providers invoked by this request, in order
    lastOutcome,        \* history: what the latest invoked provider did
    t0,                 \* history: clock value when the request started
    files0,             \* history: cache directory when the request started
    lastFetch,          \* history: per digest, the latest provider result saved
                        \* and the request it was fetched for
    lastFetch0,         \* history: lastFetch when the request started
    failed,             \* history: provider calls of this request that failed
    fin,                \* decide_and_eta: its FusionInputs
    fres,               \* decide_and_eta: its FusionResult
    fprec,              \* history: locals of decide_and_eta (`decision` before the
                        \* coastal-window rule, effective_speed, unrounded eta_hours)
    eri_in,             \* compute_eri_timeseries: its timeseries and rule_set
    eri_out,            \* compute_eri_timeseries: the list of ERIPoint returned
    qc_in,              \* apply_quality_controls: series, physical bounds, multiplier
    qc_out,             \* apply_quality_controls: the series returned
    qc_again,           \* apply_quality_controls applied to qc_out
    ens_in,             \* weighted_ensemble: series_list and weights
    ens_norm,           \* weighted_ensemble: local variable `normalized`
    ens_out,            \* weighted_ensemble: the series returned, or the error raised
    bias_in,            \* apply_bias_correction: series, background, enabled
    bias_out,           \* apply_bias_correction: the series returned
    writer,             \* process running ForecastCache.save: its position
    loaded,             \* process running ForecastCache.load: what it got
    lastSave            \* history: per digest, the latest save completed

mvars == <<providers, ttl_seconds, stale_ttl_seconds, files, now, pc, req,
           cached, idx, last_error, result, calls, lastOutcome, t0, files0,
           lastFetch, lastFetch0, failed>>
fvars == <<fin, fres, fprec>>
evars == <<eri_in, eri_out>>
qvars == <<qc_in, qc_out, qc_again>>
nvars == <<ens_in, ens_norm, ens_out>>
bvars == <<bias_in, bias_out>>
ovars == <<evars, qvars, nvars, bvars>>
cvars == <<writer, loaded, lastSave>>
vars == <<mvars, fvars, ovars, cvars>>

(***************************************************************************)
(* Bounds of the model.                                                    *)
(***************************************************************************)
MaxTime == 4
MaxTtl == 2
MaxProviders == 3

(***************************************************************************)
(* Values.                                                                 *)
(***************************************************************************)
None == [kind |-> "none"]

\* datetime values: seconds on the model clock, and whether tz-aware.
UtcTime(t) == [t |-> t, tz |-> "utc"]

\* ForecastPoint (time and one of the optional float fields).
ForecastPoint(t, hs) == [time |-> UtcTime(t), hs |-> hs]

PointsA == <<ForecastPoint(0, 15), ForecastPoint(1, 14)>>
PointsB == <<ForecastPoint(0, 9)>>
PointLists == {PointsA, PointsB}

\* ProviderError codes an adapter may raise.
ProviderCodes == {"timeout", "quota"}

ProviderError(code) == [kind |-> "ProviderError", code |-> code]
Returned(points) == [kind |-> "points", points |-> points]

\* What one call of provider.fetch_forecast may do under the adapter contract:
\* raise ProviderError, return no points, or return points.
ProviderOutcomes ==
    {ProviderError(c) : c \in ProviderCodes}
        \cup {Returned(<<>>)}
        \cup {Returned(p) : p \in PointLists}

ProviderNames == <<"Stormglass", "Open-Meteo", "NOAA", "Copernicus", "Sample">>

\* Request arguments: coordinates in units of 0.00001 degree.
Lats == {2430004, 2440000}
Lons == {5440000}
HoursSet == {48}

(***************************************************************************)
(* wv.utils.cache                                                          *)
(***************************************************************************)
CacheKey(provider, lat, lon, hours) ==
    [provider |-> provider, lat |-> lat, lon |-> lon, hours |-> hours]

\* Mutant of Format4f: the fifth decimal cut off instead of rounded.
Format4f_Truncated(x) ==
    IF x >= 0
    THEN [neg |-> FALSE, mag |-> x \div 10]
    ELSE [neg |-> TRUE, mag |-> (0 - x) \div 10]

\* f"{x:.4f}": sign and the magnitude rounded to 4 decimals (in 0.0001s).
Format4f(x) ==
    IF x >= 0
    THEN [neg |-> FALSE, mag |-> (x + 5) \div 10]
    ELSE [neg |-> TRUE, mag |-> ((0 - x) + 5) \div 10]

\* Mutant of Digest: the provider scope left out of the hashed text.
Digest_NoScope(key) ==
    <<"", Format4f(key.lat), Format4f(key.lon), key.hours>>

\* CacheKey.digest: sha256 of the formatted text, taken as injective.
Digest(key) ==
    <<key.provider, Format4f(key.lat), Format4f(key.lon), key.hours>>

\* Keys two processes save and load with: the manager's scope and the scope
\* of one provider, for the same place and hours.
CacheKeys ==
    {CacheKey("multi", 2430004, 5440000, 48),
     CacheKey("stormglass", 2430004, 5440000, 48)}

\* Requests for one place and for places and hours next to it: the same
\* latitude to 4 decimals, the next 0.0001 of latitude or longitude, other
\* hours.
Request(lat, lon, hours) == [lat |-> lat, lon |-> lon, hours |-> hours]
SlotRequests ==
    {Request(2430004, 5440000, 48),
     Request(2430001, 5440000, 48),
     Request(2430006, 5440000, 48),
     Request(2430004, 5440006, 48),
     Request(2430004, 5440000, 24)}

Digests ==
    {Digest(CacheKey("multi", la, lo, h)) : la \in Lats, lo \in Lons, h \in HoursSet}
        \cup {Digest(k) : k \in CacheKeys}
        \cup {Digest(CacheKey("multi", r.lat, r.lon, r.hours)) : r \in SlotRequests}

NoFile == [kind |-> "absent"]

\* A file that open(..., "w") has truncated and whose text is not written yet.
EmptyFile == [kind |-> "empty"]

\* datetime.isoformat / datetime.fromisoformat
IsoFormat(dt) ==
    [text |-> dt.t, offset |-> IF dt.tz = "utc" THEN "+00:00" ELSE ""]
FromIsoFormat(s) ==
    [t |-> s.text, tz |-> IF s.offset = "+00:00" THEN "utc" ELSE "naive"]

\* ForecastPoint.model_dump(mode="json") / ForecastPoint.model_validate
ModelDump(p) == [time |-> IsoFormat(p.time), hs |-> p.hs]
ModelValidate(item) == [time |-> FromIsoFormat(item.time), hs |-> item.hs]

DumpAll(points) == [i \in 1..Len(points) |-> ModelDump(points[i])]
ValidateAll(items) == [i \in 1..Len(items) |-> ModelValidate(items[i])]

CacheEntry(points, fresh) == [kind |-> "entry", points |-> points, fresh |-> fresh]
Raised(exc) == [kind |-> "raised", exc |-> exc]

\* Mutant of CacheLoad: an entry older than stale-TTL is still handed out.
CacheLoad_NoExpiry(fs, key, ttl, stale, tnow) ==
    LET file == fs[Digest(key)] IN
    IF file = NoFile THEN None
    ELSE IF file = EmptyFile THEN Raised("JSONDecodeError")
    ELSE LET timestamp == FromIsoFormat(file.timestamp) IN
         IF timestamp.tz # "utc" THEN Raised("TypeError")
         ELSE LET age == tnow - timestamp.t IN
              CacheEntry(ValidateAll(file.points), age <= ttl)

\* Mutant of CacheLoad: the freshness test written with < instead of <=.
CacheLoad_StrictFresh(fs, key, ttl, stale, tnow) ==
    LET file == fs[Digest(key)] IN
    IF file = NoFile THEN None
    ELSE IF file = EmptyFile THEN Raised("JSONDecodeError")
    ELSE LET timestamp == FromIsoFormat(file.timestamp) IN
         IF timestamp.tz # "utc" THEN Raised("TypeError")
         ELSE LET age == tnow - timestamp.t IN
              IF age > stale THEN None
              ELSE CacheEntry(ValidateAll(file.points), age < ttl)

\* ForecastCache.load at clock value tnow; json.loads raises on a text that
\* is no JSON document.
CacheLoad(fs, key, ttl, stale, tnow) ==
    LET file == fs[Digest(key)] IN
    IF file = NoFile THEN None
    ELSE IF file = EmptyFile THEN Raised("JSONDecodeError")
    ELSE LET timestamp == FromIsoFormat(file.timestamp) IN
         IF timestamp.tz # "utc" THEN Raised("TypeError")
         ELSE LET age == tnow - timestamp.t IN
              IF age > stale THEN None
              ELSE CacheEntry(ValidateAll(file.points), age <= ttl)

\* Mutant of CachePayload: the timestamp taken without a timezone
\* (datetime.utcnow()), which load cannot subtract from an aware datetime.
CachePayload_NaiveTimestamp(points, tnow) ==
    [kind |-> "json",
     timestamp |-> IsoFormat([t |-> tnow, tz |-> "naive"]),
     points |-> DumpAll(points)]

\* The payload ForecastCache.save builds at clock value tnow.
CachePayload(points, tnow) ==
    [kind |-> "json",
     timestamp |-> IsoFormat(UtcTime(tnow)),
     points |-> DumpAll(points)]

\* Mutant of CacheSave: the write is lost.
CacheSave_Lost(fs, key, points, tnow) == fs

\* ForecastCache.save: the cache directory after path.write_text.
CacheSave(fs, key, points, tnow) ==
    [fs EXCEPT ![Digest(key)] = CachePayload(points, tnow)]

(***************************************************************************)
(* wv.providers.manager                                                    *)
(***************************************************************************)
RequestKey(r) == CacheKey("multi", r.lat, r.lon, r.hours)

\* Mutant of FreshHit: the freshness test inverted.
FreshHit_Inverted(c) == c.kind = "entry" /\ ~c.fresh

\* Mutant of FreshHit: any loaded entry served at once, stale or not.
FreshHit_AnyEntry(c) == c.kind = "entry"

\* `if cached and cached.fresh`
FreshHit(c) == c.kind = "entry" /\ c.fresh

\* Mutant of ProviderAt: the list walked from its end.
ProviderAt_Reversed(ps, i) == ps[Len(ps) + 1 - i]

\* `for provider in self.providers`: the provider tried at loop position i.
ProviderAt(ps, i) == ps[i]

\* Mutant of IsEmpty: the test inverted.
IsEmpty_Inverted(points) == points # <<>>

\* Mutant of IsEmpty: the emptiness test dropped.
IsEmpty_Never(points) == FALSE

\* `if not points`
IsEmpty(points) == points = <<>>

\* Mutant of StaleAvailable: the stale fallback dropped.
StaleAvailable_Never(c) == FALSE

\* `if cached` after the loop
StaleAvailable(c) == c.kind = "entry"

\* Mutant of FinalCode: the last failure's code not carried over.
FinalCode_Unknown(le) == "unknown"

\* `last_error.code if last_error else "unknown"`
FinalCode(le) == IF le = None THEN "unknown" ELSE le.code

Return(points, src) == [kind |-> "return", points |-> points, src |-> src]
Raise(code) == [kind |-> "raise", exc |-> "ProviderError", code |-> code]
Uncaught(exc) == [kind |-> "raise", exc |-> exc, code |-> ""]

Idle ==
    /\ pc \in {"idle", "done"}

\* Lines 35-41: build the key, load, return a fresh entry or enter the loop.
Start(lat, lon, hours) ==
    /\ Idle
    /\ req' = Request(lat, lon, hours)
    /\ LET c == CacheLoad(files, RequestKey(req'), ttl_seconds, stale_ttl_seconds, now) IN
       /\ cached' = c
       /\ IF c.kind = "raised"
          THEN /\ pc' = "done"
               /\ result' = Uncaught(c.exc)
          ELSE IF FreshHit(c)
          THEN /\ pc' = "done"
               /\ result' = Return(c.points, "fresh")
          ELSE /\ pc' = "loop"
               /\ result' = None
    /\ idx' = 1
    /\ last_error' = None
    /\ calls' = <<>>
    /\ lastOutcome' = None
    /\ t0' = now
    /\ files0' = files
    /\ lastFetch0' = lastFetch
    /\ failed' = 0
    /\ UNCHANGED <<providers, ttl_seconds, stale_ttl_seconds, files, now, lastFetch>>
    /\ UNCHANGED fvars
    /\ UNCHANGED ovars
    /\ UNCHANGED cvars

\* Lines 42-58: one iteration of the loop, the provider doing `outcome`.
Attempt(outcome) ==
    /\ pc = "loop"
    /\ idx <= Len(providers)
    /\ calls' = Append(calls, ProviderAt(providers, idx))
    /\ lastOutcome' = outcome
    /\ IF outcome.kind = "ProviderError"
       THEN /\ last_error' = outcome
            /\ idx' = idx + 1
            /\ failed' = failed + 1
            /\ UNCHANGED <<files, result, pc, lastFetch>>
       ELSE IF IsEmpty(outcome.points)
       THEN /\ last_error' = ProviderError("empty")
            /\ idx' = idx + 1
            /\ failed' = failed + 1
            /\ UNCHANGED <<files, result, pc, lastFetch>>
       ELSE /\ files' = CacheSave(files, RequestKey(req), outcome.points, now)
            /\ lastFetch' = [lastFetch EXCEPT ![Digest(RequestKey(req))] =
                                [kind |-> "fetched", points |-> outcome.points,
                                 at |-> now, by |-> req]]
            /\ result' = Return(outcome.points, "provider")
            /\ pc' = "done"
            /\ UNCHANGED <<last_error, idx, failed>>
    /\ UNCHANGED <<providers, ttl_seconds, stale_ttl_seconds, now, req, cached, t0, files0,
                   lastFetch0>>
    /\ UNCHANGED fvars
    /\ UNCHANGED ovars
    /\ UNCHANGED cvars

\* Lines 60-64: the loop is exhausted.
Finish ==
    /\ pc = "loop"
    /\ idx > Len(providers)
    /\ result' = IF StaleAvailable(cached)
                 THEN Return(cached.points, "stale")
                 ELSE Raise(FinalCode(last_error))
    /\ pc' = "done"
    /\ UNCHANGED <<providers, ttl_seconds, stale_ttl_seconds, files, now, req, cached,
                   idx, last_error, calls, lastOutcome, t0, files0, lastFetch,
                   lastFetch0, failed>>
    /\ UNCHANGED fvars
    /\ UNCHANGED ovars
    /\ UNCHANGED cvars

\* The wall clock advances.
Tick ==
    /\ now < MaxTime
    /\ now' = now + 1
    /\ UNCHANGED <<providers, ttl_seconds, stale_ttl_seconds, files, pc, req, cached,
                   idx, last_error, result, calls, lastOutcome, t0, files0, lastFetch,
                   lastFetch0, failed>>
    /\ UNCHANGED fvars
    /\ UNCHANGED ovars
    /\ UNCHANGED cvars

NoInputs == [kind |-> "none"]

\* No call of the marine_ops pipeline functions is under way.
EriAtRest ==
    /\ eri_in = NoInputs
    /\ eri_out = None

QcAtRest ==
    /\ qc_in = NoInputs
    /\ qc_out = None
    /\ qc_again = None

EnsembleAtRest ==
    /\ ens_in = NoInputs
    /\ ens_norm = None
    /\ ens_out = None

BiasAtRest ==
    /\ bias_in = NoInputs
    /\ bias_out = None

\* No process is using the cache directory on its own.
CacheAtRest ==
    /\ writer = None
    /\ loaded = None
    /\ lastSave = [d \in Digests |-> None]

MarineOpsAtRest ==
    /\ EriAtRest
    /\ QcAtRest
    /\ EnsembleAtRest
    /\ BiasAtRest

\* ProviderManager.__init__ on an empty cache directory.
Init ==
    /\ \E n \in 0..MaxProviders : providers = SubSeq(ProviderNames, 1, n)
    /\ ttl_seconds \in 0..MaxTtl
    /\ stale_ttl_seconds \in 0..MaxTtl
    /\ files = [d \in Digests |-> NoFile]
    /\ now = 0
    /\ pc = "idle"
    /\ req = None
    /\ cached = None
    /\ idx = 1
    /\ last_error = None
    /\ result = None
    /\ calls = <<>>
    /\ lastOutcome = None
    /\ t0 = 0
    /\ files0 = [d \in Digests |-> NoFile]
    /\ lastFetch = [d \in Digests |-> None]
    /\ lastFetch0 = [d \in Digests |-> None]
    /\ failed = 0
    /\ fin = NoInputs
    /\ fres = None
    /\ fprec = None
    /\ MarineOpsAtRest
    /\ CacheAtRest

Next ==
    \/ \E lat \in Lats, lon \in Lons, hours \in HoursSet : Start(lat, lon, hours)
    \/ \E outcome \in ProviderOutcomes : Attempt(outcome)
    \/ Finish
    \/ Tick

Spec == Init /\ [][Next]_vars

\* A step of the request in flight: one loop iteration, or the code after it.
RequestStep == (\E outcome \in ProviderOutcomes : Attempt(outcome)) \/ Finish

(***************************************************************************)
(* wv.core.fusion                                                          *)
(*                                                                         *)
(* Numbers are exact fixed-point integers: heights in 0.1 ft, winds in     *)
(* 0.1 kt, offshore_weight, alpha, beta and gamma in 1/20, fused heights   *)
(* in 1/HsDen m, distance in 0.1 nm, planned speed in 0.001 kt,            *)
(* wind_factor in 0.01, wave_factor in 0.1. A speed after the penalties is *)
(* a pair (milli, rest) standing for milli * 0.001 kt + rest * 1e-9 kt,    *)
(* 0 <= rest < Mega; eta is the exact fraction distance / speed.           *)
(***************************************************************************)
\* FT_TO_M = 0.3048 = FtToMNum / FtToMDen
FtToMNum == 381
FtToMDen == 1250

\* One metre of fused height: 1 / (0.1 ft * FT_TO_M / 20 / 20 / 20).
HsDen == 10 * FtToMDen * 20 * 20 * 20

\* str values are sequences of one-character strings; None is no alert.
Text(cs) == [kind |-> "str", chars |-> cs]

UpperCase == <<"A", "B", "C", "D", "E", "F", "G", "H", "I", "J", "K", "L", "M",
               "N", "O", "P", "Q", "R", "S", "T", "U", "V", "W", "X", "Y", "Z">>
LowerCase == <<"a", "b", "c", "d", "e", "f", "g", "h", "i", "j", "k", "l", "m",
               "n", "o", "p", "q", "r", "s", "t", "u", "v", "w", "x", "y", "z">>

\* str.casefold on one ASCII character.
CasefoldChar(c) ==
    IF \E i \in 1..Len(UpperCase) : UpperCase[i] = c
    THEN LowerCase[CHOOSE i \in 1..Len(UpperCase) : UpperCase[i] = c]
    ELSE c

\* str.casefold
Casefold(cs) == [i \in 1..Len(cs) |-> CasefoldChar(cs[i])]

RECURSIVE LStrip(_)
LStrip(cs) == IF cs # <<>> /\ Head(cs) = " " THEN LStrip(Tail(cs)) ELSE cs

RECURSIVE RStrip(_)
RStrip(cs) ==
    IF cs # <<>> /\ cs[Len(cs)] = " " THEN RStrip(SubSeq(cs, 1, Len(cs) - 1)) ELSE cs

\* str.strip
Strip(cs) == RStrip(LStrip(cs))

\* str.startswith
StartsWith(cs, prefix) ==
    Len(prefix) <= Len(cs) /\ SubSeq(cs, 1, Len(prefix)) = prefix

\* `sub in cs`
Contains(cs, sub) ==
    \E k \in 0..(Len(cs) - Len(sub)) : SubSeq(cs, k + 1, k + Len(sub)) = sub

HighSeas == <<"h", "i", "g", "h", " ", "s", "e", "a", "s">>
Fog == <<"f", "o", "g">>
RoughAtTimes == <<"r", "o", "u", "g", "h", " ", "a", "t", " ", "t", "i", "m", "e", "s">>
RoughAtTimesWestward == RoughAtTimes \o <<" ", "w", "e", "s", "t", "w", "a", "r", "d">>

\* FusionInputs._normalize_alert
NormalizeAlert(value) == IF value = None THEN None ELSE Text(Strip(value.chars))

\* `(alert or "").strip().casefold()`
AlertKey(alert) == IF alert = None THEN <<>> ELSE Casefold(Strip(alert.chars))

\* _ALERT_GAMMA.get(key, 0.0), in 1/20
AlertGammaTable(key) == IF key = RoughAtTimesWestward THEN 3 ELSE 0

\* _alert_gamma, in 1/20
AlertGamma(alert) ==
    LET key == AlertKey(alert) IN
    IF StartsWith(key, HighSeas) THEN 6
    ELSE IF Contains(key, RoughAtTimes) THEN 3
    ELSE AlertGammaTable(key)

\* Mutant of IsForcedNoGo: the fog rule forgotten.
IsForcedNoGo_HighSeasOnly(alert) == StartsWith(AlertKey(alert), HighSeas)

\* _is_forced_no_go
IsForcedNoGo(alert) ==
    LET key == AlertKey(alert) IN StartsWith(key, HighSeas) \/ StartsWith(key, Fog)

Max(a, b) == IF a >= b THEN a ELSE b

\* hs_ncm, in 1/(HsDen/20) m
HsNcm(inp) ==
    ((20 - inp.offshore_weight) * inp.hs_onshore_ft
        + inp.offshore_weight * inp.hs_offshore_ft) * FtToMNum * 20

\* coeffs.beta * hs_from_adnoc, in 1/(HsDen/20) m
HsAdnoc(inp) == inp.beta * (inp.alpha * (inp.combined_ft * FtToMNum))

\* hs_fused, in 1/HsDen m
HsFused(inp) == Max(HsNcm(inp), HsAdnoc(inp)) * (20 + AlertGamma(inp.alert))

\* wind_fused, in 0.1 kt
WindFused(inp) == Max(inp.wind_adnoc, inp.wind_albahar)

\* hs_on_m <= 1.0
OnshoreCalm(inp) == inp.hs_onshore_ft * FtToMNum <= 10 * FtToMDen

\* Mutant of GoConditions: the wind limit of the other threshold set (22 kt).
GoConditions_Wind22(inp) ==
    /\ HsFused(inp) <= HsDen
    /\ WindFused(inp) <= 220
    /\ AlertGamma(inp.alert) = 0

\* `hs_fused <= 1.0 and wind_fused <= 20.0 and gamma == 0.0`
GoConditions(inp) ==
    /\ HsFused(inp) <= HsDen
    /\ WindFused(inp) <= 200
    /\ AlertGamma(inp.alert) = 0

\* `hs_fused > 1.2 or wind_fused > 22.0`
NoGoConditions(inp) ==
    \/ 5 * HsFused(inp) > 6 * HsDen
    \/ WindFused(inp) > 220

\* The if/elif chain: the decision before the coastal-window rule.
PrecedenceDecision(inp) ==
    IF IsForcedNoGo(inp.alert) THEN "No-Go"
    ELSE IF GoConditions(inp) THEN "Go"
    ELSE IF NoGoConditions(inp) THEN "No-Go"
    ELSE "Conditional Go"

\* Mutant of CoastalWindow: the gamma condition forgotten.
CoastalWindow_NoGamma(decision, inp) ==
    IF /\ decision = "No-Go"
       /\ inp.offshore_weight <= 8
       /\ OnshoreCalm(inp)
    THEN "Conditional Go (coastal window)"
    ELSE decision

\* The coastal-window rule applied to `decision`.
CoastalWindow(decision, inp) ==
    IF /\ decision = "No-Go"
       /\ inp.offshore_weight <= 8
       /\ OnshoreCalm(inp)
       /\ AlertGamma(inp.alert) <= 3
    THEN "Conditional Go (coastal window)"
    ELSE decision

\* round(x, 2) of a height in 1/HsDen m, in 0.01 m (ties to even).
Round2(x) ==
    LET unit == HsDen \div 100
        q == x \div unit
        r == x % unit
    IN IF 2 * r > unit \/ (2 * r = unit /\ q % 2 = 1) THEN q + 1 ELSE q

\* 0.001 kt in units of 1e-9 kt (the unit of wave_factor * hs_fused).
Mega == 1000000

Kt(milli, rest) == [milli |-> milli, rest |-> rest]

\* _MIN_SPEED_KT = 0.1
MinSpeedKt == Kt(100, 0)

KtLe(a, b) == a.milli < b.milli \/ (a.milli = b.milli /\ a.rest <= b.rest)

KtPlus(a, b) ==
    Kt(a.milli + b.milli + (a.rest + b.rest) \div Mega, (a.rest + b.rest) % Mega)

\* k times the speed, for k up to 2000.
KtTimesSmall(k, a) == Kt(k * a.milli + (k * a.rest) \div Mega, (k * a.rest) % Mega)

\* k times the speed.
KtTimes(k, a) ==
    KtPlus(KtTimesSmall(1000, KtTimesSmall(k \div 1000, a)), KtTimesSmall(k % 1000, a))

\* wind_penalty, in 0.001 kt
WindPenalty(inp) == inp.wind_factor * Max(WindFused(inp) - 100, 0)

\* wave_penalty, in 1e-9 kt
WavePenalty(inp) == inp.wave_factor * HsFused(inp)

\* inputs.planned_speed_kt - wind_penalty - wave_penalty
SpeedAfterPenalties(inp) ==
    LET wave == WavePenalty(inp)
        whole == inp.planned_speed_kt - WindPenalty(inp) - (wave \div Mega)
    IN IF wave % Mega = 0 THEN Kt(whole, 0) ELSE Kt(whole - 1, Mega - (wave % Mega))

\* Mutant of EffectiveSpeed: the minimum speed taken as 0.01 kt.
EffectiveSpeed_LowFloor(inp) ==
    LET speed == SpeedAfterPenalties(inp) IN
    IF KtLe(speed, Kt(10, 0)) THEN Kt(10, 0) ELSE speed

\* effective_speed = max(planned - wind_penalty - wave_penalty, _MIN_SPEED_KT)
EffectiveSpeed(inp) ==
    LET speed == SpeedAfterPenalties(inp) IN
    IF KtLe(speed, MinSpeedKt) /\ speed # MinSpeedKt THEN MinSpeedKt ELSE speed

\* eta_hours = inputs.distance_nm / effective_speed, the exact fraction
\* (nm in 0.1 nm over kt).
EtaHours(inp) == [nm |-> inp.distance_nm, kt |-> EffectiveSpeed(inp)]

\* round(eta_hours, 2), in 0.01 h (ties to even): halves counts the whole
\* 0.005 h in eta, found between the quotients by milli + 1 and by milli.
RoundEta(eta) ==
    LET twice == Kt(2 * 10000 * eta.nm, 0)
        halves == IF eta.kt.rest = 0 THEN twice.milli \div eta.kt.milli
                  ELSE CHOOSE q \in (twice.milli \div (eta.kt.milli + 1))
                                        ..(twice.milli \div eta.kt.milli) :
                          /\ KtLe(KtTimes(q, eta.kt), twice)
                          /\ ~KtLe(KtTimes(q + 1, eta.kt), twice)
    IN IF halves % 2 = 0 THEN halves \div 2
       ELSE IF KtTimes(halves, eta.kt) = twice /\ (halves \div 2) % 2 = 0
       THEN halves \div 2
       ELSE halves \div 2 + 1

\* buffer_minutes
BufferMinutes(inp) == IF inp.offshore_weight <= 8 THEN 45 ELSE 60

\* FusionResult built by decide_and_eta, rounded by FusionResult._round.
DecideAndEta(inp) ==
    [kind |-> "FusionResult",
     hs_fused_m |-> Round2(HsFused(inp)),
     wind_fused_kt |-> WindFused(inp),
     decision |-> CoastalWindow(PrecedenceDecision(inp), inp),
     eta_hours |-> RoundEta(EtaHours(inp)),
     buffer_minutes |-> BufferMinutes(inp)]

\* Alert texts as a caller may pass them.
RawAlerts ==
    {None,
     Text(<<>>),
     Text(<<"H", "i", "g", "h", " ", "s", "e", "a", "s", " ", "w", "e", "s", "t", "w", "a", "r", "d">>),
     Text(<<" ", "H", "I", "G", "H", " ", "S", "E", "A", "S">>),
     Text(<<"F", "o", "g", " ", "b", "a", "n", "k", " ">>),
     Text(<<"d", "e", "n", "s", "e", " ", "f", "o", "g">>),
     Text(<<"r", "o", "u", "g", "h", " ", "a", "t", " ", "t", "i", "m", "e", "s", " ", "w", "e", "s", "t", "w", "a", "r", "d">>),
     Text(<<"f", "o", "g", ",", " ", "r", "o", "u", "g", "h", " ", "a", "t", " ", "t", "i", "m", "e", "s">>),
     Text(<<"h", "i", "g", "h", " ", "s", "e", "a">>)}

CombinedFt == {25, 55, 60}
HsOnshoreFt == {10, 15, 40}
HsOffshoreFt == {12, 30, 60}
WindAdnoc == {120, 200, 220}
WindAlbahar == {110, 205, 225}
OffshoreWeights == {0, 7, 8, 13}
\* distance_nm 0.5 and 35.0; planned_speed_kt 0.05, 1.0 and 12.0
DistanceNm == {5, 350}
PlannedSpeedKt == {50, 1000, 12000}
\* (alpha, beta, wind_factor, wave_factor): the defaults 0.85, 0.80, 0.06,
\* 0.60 and 1.0, 1.0, 0.0, 0.0
Coefficients == {<<17, 16, 6, 6>>, <<20, 20, 0, 0>>}

\* FusionInputs(...) with FusionCoefficients, validated.
FusionInputs(c, wa, on, off, wb, alert, w, d, p, co) ==
    [kind |-> "FusionInputs",
     combined_ft |-> c, wind_adnoc |-> wa, hs_onshore_ft |-> on,
     hs_offshore_ft |-> off, wind_albahar |-> wb,
     alert |-> NormalizeAlert(alert), offshore_weight |-> w,
     distance_nm |-> d, planned_speed_kt |-> p,
     alpha |-> co[1], beta |-> co[2], wind_factor |-> co[3], wave_factor |-> co[4]]

InitFusion ==
    /\ \E c \in CombinedFt, wa \in WindAdnoc, on \in HsOnshoreFt, off \in HsOffshoreFt,
          wb \in WindAlbahar, alert \in RawAlerts, w \in OffshoreWeights,
          d \in DistanceNm, p \in PlannedSpeedKt, co \in Coefficients :
            fin = FusionInputs(c, wa, on, off, wb, alert, w, d, p, co)
    /\ fres = None
    /\ fprec = None
    /\ providers = <<>>
    /\ ttl_seconds = 0
    /\ stale_ttl_seconds = 0
    /\ files = [d \in Digests |-> NoFile]
    /\ now = 0
    /\ pc = "idle"
    /\ req = None
    /\ cached = None
    /\ idx = 1
    /\ last_error = None
    /\ result = None
    /\ calls = <<>>
    /\ lastOutcome = None
    /\ t0 = 0
    /\ files0 = [d \in Digests |-> NoFile]
    /\ lastFetch = [d \in Digests |-> None]
    /\ lastFetch0 = [d \in Digests |-> None]
    /\ failed = 0
    /\ MarineOpsAtRest
    /\ CacheAtRest

\* decide_and_eta(inputs, coefficients)
Decide ==
    /\ fres = None
    /\ fprec' = [kind |-> "locals",
                  decision |-> PrecedenceDecision(fin),
                  effective_speed |-> EffectiveSpeed(fin),
                  eta_hours |-> EtaHours(fin)]
    /\ fres' = DecideAndEta(fin)
    /\ UNCHANGED fin
    /\ UNCHANGED mvars
    /\ UNCHANGED ovars
    /\ UNCHANGED cvars

NextFusion == Decide

SpecFusion == InitFusion /\ [][NextFusion]_vars

(***************************************************************************)
(* marine_ops.core.schema: the values the pipeline functions work on.      *)
(***************************************************************************)
\* The manager and decide_and_eta are not in use.
ManagerAtRest ==
    /\ providers = <<>>
    /\ ttl_seconds = 0
    /\ stale_ttl_seconds = 0
    /\ files = [d \in Digests |-> NoFile]
    /\ now = 0
    /\ pc = "idle"
    /\ req = None
    /\ cached = None
    /\ idx = 1
    /\ last_error = None
    /\ result = None
    /\ calls = <<>>
    /\ lastOutcome = None
    /\ t0 = 0
    /\ files0 = [d \in Digests |-> NoFile]
    /\ lastFetch = [d \in Digests |-> None]
    /\ lastFetch0 = [d \in Digests |-> None]
    /\ failed = 0

FusionAtRest ==
    /\ fin = NoInputs
    /\ fres = None
    /\ fprec = None

MarineMeasurement(variable, value, unit, quality_flag) ==
    [variable |-> variable, value |-> value, unit |-> unit,
     quality_flag |-> quality_flag]

TimeseriesMetadata(source, units, bias_corrected, ensemble_weight) ==
    [source |-> source, source_url |-> None, units |-> units,
     bias_corrected |-> bias_corrected, ensemble_weight |-> ensemble_weight]

Position(latitude, longitude) == [latitude |-> latitude, longitude |-> longitude]

MarineDataPoint(timestamp, position, measurements, metadata) ==
    [timestamp |-> timestamp, position |-> position,
     measurements |-> measurements, metadata |-> metadata]

\* The `units` mapping of a point's metadata, as (variable, unit) pairs.
UnitsOf(measurements) ==
    {<<measurements[i].variable, measurements[i].unit>> : i \in 1..Len(measurements)}

\* A point as the tests build it (make_point): fixed position, measurements
\* in their variables' units, metadata of the given source.
MakePoint(timestamp, source, bias_corrected, measurements) ==
    MarineDataPoint(timestamp, Position(250, 550), measurements,
                    TimeseriesMetadata(source, UnitsOf(measurements), bias_corrected, None))

\* round-half-even of n / d, for d > 0 (Python's round on an exact value).
RoundDiv(n, d) ==
    LET q == n \div d
        r == n % d
    IN IF 2 * r > d \/ (2 * r = d /\ q % 2 = 1) THEN q + 1 ELSE q

RECURSIVE SumSeq(_)
SumSeq(xs) == IF xs = <<>> THEN 0 ELSE Head(xs) + SumSeq(Tail(xs))

(***************************************************************************)
(* marine_ops.eri                                                          *)
(*                                                                         *)
(* Measurement values and thresholds are in 0.1, weights in 0.1, penalties *)
(* in 0.01, so that weight * penalty, base_score and score are in 0.001.   *)
(***************************************************************************)
ThresholdRule(variable, caution, danger, weight, direction) ==
    [variable |-> variable, caution |-> caution, danger |-> danger,
     weight |-> weight, direction |-> direction]

ERIRuleSet(base_score, caution_penalty, danger_penalty, rules) ==
    [base_score |-> base_score, caution_penalty |-> caution_penalty,
     danger_penalty |-> danger_penalty, rules |-> rules]

QualityBadge(source, has_missing, bias_corrected) ==
    [source |-> source, has_missing |-> has_missing, bias_corrected |-> bias_corrected]

ERIPoint(timestamp, score, quality) ==
    [timestamp |-> timestamp, score |-> score, quality |-> quality]

\* Mutant of ScoreForMeasurement: the thresholds compared strictly.
ScoreForMeasurement_Strict(value, rule) ==
    IF rule.direction = "max"
    THEN IF value > rule.danger THEN 2
         ELSE IF value > rule.caution THEN 1
         ELSE 0
    ELSE IF value < rule.danger THEN 2
         ELSE IF value < rule.caution THEN 1
         ELSE 0

\* Mutant of ScoreForMeasurement: every rule read as a lower limit.
ScoreForMeasurement_AllMin(value, rule) ==
    IF value <= rule.danger THEN 2
    ELSE IF value <= rule.caution THEN 1
    ELSE 0

\* _score_for_measurement: 2, 1 or 0
ScoreForMeasurement(value, rule) ==
    IF rule.direction = "max"
    THEN IF value >= rule.danger THEN 2
         ELSE IF value >= rule.caution THEN 1
         ELSE 0
    ELSE IF value <= rule.danger THEN 2
         ELSE IF value <= rule.caution THEN 1
         ELSE 0

\* _find_measurement: the first measurement of the variable, or None.
FindMeasurement(point, variable) ==
    LET ms == point.measurements
        hits == {i \in 1..Len(ms) : ms[i].variable = variable}
    IN IF hits = {} THEN None
       ELSE ms[CHOOSE i \in hits : \A j \in hits : i <= j]

\* Lines 51-60: what one rule adds to `penalty`, in 0.001.
RulePenalty(point, rule, rule_set) ==
    LET measurement == FindMeasurement(point, rule.variable) IN
    IF measurement = None THEN rule.weight * rule_set.caution_penalty
    ELSE LET state == ScoreForMeasurement(measurement.value, rule) IN
         IF state = 2 THEN rule.weight * rule_set.danger_penalty
         ELSE IF state = 1 THEN rule.weight * rule_set.caution_penalty
         ELSE 0

\* Lines 48-60: `penalty` after the loop over rule_set.rules.
Penalty(point, rule_set) ==
    SumSeq([k \in 1..Len(rule_set.rules) |-> RulePenalty(point, rule_set.rules[k], rule_set)])

\* Lines 49-53: `has_missing` after the loop.
HasMissing(point, rule_set) ==
    \E k \in 1..Len(rule_set.rules) :
        FindMeasurement(point, rule_set.rules[k].variable) = None

\* max(0.0, rule_set.base_score - penalty), in 0.001
Score(point, rule_set) == Max(0, rule_set.base_score - Penalty(point, rule_set))

\* round(score, 2), in 0.001
RoundScore(score) == 10 * RoundDiv(score, 10)

\* Lines 48-72: the ERIPoint of one point.
ComputeEriPoint(point, rule_set) ==
    ERIPoint(point.timestamp,
             RoundScore(Score(point, rule_set)),
             QualityBadge(point.metadata.source,
                          HasMissing(point, rule_set),
                          point.metadata.bias_corrected))

\* compute_eri_timeseries
ComputeEriTimeseries(timeseries, rule_set) ==
    [i \in 1..Len(timeseries) |-> ComputeEriPoint(timeseries[i], rule_set)]

\* Rules as a rule resource may state them: wave height bad above, visibility
\* bad below, with a weight of any sign; and a rule that holds wave height
\* too low for the operation (below 0.7 m caution, below 0.6 m danger).
EriWeights == {-10, 0, 10}
EriRules ==
    {ThresholdRule("significant_wave_height", 10, 20, w, "max") : w \in EriWeights}
        \cup {ThresholdRule("visibility", 50, 20, w, "min") : w \in EriWeights}
        \cup {ThresholdRule("significant_wave_height", 7, 6, 10, "min")}

EriRuleLists ==
    {<<>>} \cup {<<r>> : r \in EriRules} \cup {<<r, q>> : r \in EriRules, q \in EriRules}

\* base_score 100.0, 0.006 and -5.0; caution_penalty 10.0 and -10.0;
\* danger_penalty 25.0
EriBaseScores == {100000, 6, -5000}
EriCautionPenalties == {1000, -1000}
EriDangerPenalties == {2500}

EriRuleSets ==
    {ERIRuleSet(b, cp, dp, rs) :
        b \in EriBaseScores, cp \in EriCautionPenalties,
        dp \in EriDangerPenalties, rs \in EriRuleLists}

\* Measurements of one point: wave height absent, safe, at caution, at danger;
\* visibility absent or safe.
EriMeasurementLists ==
    {hs \o vis :
        hs \in {<<>>} \cup {<<MarineMeasurement("significant_wave_height", v, "m", "raw")>> :
                                v \in {5, 10, 20}},
        vis \in {<<>>, <<MarineMeasurement("visibility", 60, "km", "raw")>>}}

EriSeries ==
    {<<>>}
        \cup {<<MakePoint(0, "stormglass", FALSE, m)>> : m \in EriMeasurementLists}
        \cup {<<MakePoint(0, "stormglass", FALSE, m), MakePoint(1, "stormglass", TRUE, n)>> :
                m \in EriMeasurementLists, n \in EriMeasurementLists}

InitEri ==
    /\ \E ts \in EriSeries, rs \in EriRuleSets :
          eri_in = [kind |-> "eri", timeseries |-> ts, rule_set |-> rs]
    /\ eri_out = None
    /\ ManagerAtRest
    /\ FusionAtRest
    /\ CacheAtRest
    /\ QcAtRest
    /\ EnsembleAtRest
    /\ BiasAtRest

\* compute_eri_timeseries(timeseries, rule_set)
ComputeEri ==
    /\ eri_in # NoInputs
    /\ eri_out = None
    /\ eri_out' = [kind |-> "eri_points",
                   points |-> ComputeEriTimeseries(eri_in.timeseries, eri_in.rule_set)]
    /\ UNCHANGED eri_in
    /\ UNCHANGED <<mvars, fvars, qvars, nvars, bvars>>
    /\ UNCHANGED cvars

NextEri == ComputeEri

SpecEri == InitEri /\ [][NextEri]_vars

(***************************************************************************)
(* marine_ops.core.qc                                                      *)
(*                                                                         *)
(* Values are in 1/6400 (inputs are whole hundredths, 64 units each), so   *)
(* that the quartiles and the IQR bounds of two successive passes are      *)
(* exact. iqr_multiplier is in halves.                                     *)
(***************************************************************************)
QcUnit == 64

\* A float bound, float("-inf") and float("inf"); None is no bound.
Num(x) == [kind |-> "num", v |-> x]
NegInf == [kind |-> "-inf"]
PosInf == [kind |-> "inf"]

\* `minimum is not None and value < minimum`
BelowMinimum(value, minimum) == minimum.kind = "num" /\ value < minimum.v

\* `maximum is not None and value > maximum`
AboveMaximum(value, maximum) == maximum.kind = "num" /\ value > maximum.v

\* _clip_value
ClipValue(value, minimum, maximum) ==
    IF BelowMinimum(value, minimum) THEN minimum.v
    ELSE IF AboveMaximum(value, maximum) THEN maximum.v
    ELSE value

LessThan(a, b) == a < b

\* statistics.quantiles(values, n=4, method="inclusive")[i - 1]
Quartile(values, i) ==
    LET data == SortSeq(values, LessThan)
        m == Len(data) - 1
        j == (i * m) \div 4
        delta == (i * m) % 4
    IN IF delta = 0 THEN data[j + 1]
       ELSE (data[j + 1] * (4 - delta) + data[j + 2] * delta) \div 4

\* Mutant of ComputeIqrBounds: the sample-size guard off by one.
ComputeIqrBounds_MinThree(values, multiplier) ==
    IF Len(values) < 3 THEN <<NegInf, PosInf>>
    ELSE LET q1 == Quartile(values, 1)
             q3 == Quartile(values, 3)
             iqr == q3 - q1
         IN <<Num(q1 - (multiplier * iqr) \div 2), Num(q3 + (multiplier * iqr) \div 2)>>

\* compute_iqr_bounds
ComputeIqrBounds(values, multiplier) ==
    IF Len(values) < 4 THEN <<NegInf, PosInf>>
    ELSE LET q1 == Quartile(values, 1)
             q3 == Quartile(values, 3)
             iqr == q3 - q1
         IN <<Num(q1 - (multiplier * iqr) \div 2), Num(q3 + (multiplier * iqr) \div 2)>>

\* The measurements of a series, point after point.
RECURSIVE AllMeasurements(_)
AllMeasurements(timeseries) ==
    IF timeseries = <<>> THEN <<>>
    ELSE Head(timeseries).measurements \o AllMeasurements(Tail(timeseries))

\* value_collector[variable] (qc.py lines 45-48); value_map[variable] of bias.py
ValuesOf(timeseries, variable) ==
    LET ms == SelectSeq(AllMeasurements(timeseries), LAMBDA m : m.variable = variable)
    IN [k \in 1..Len(ms) |-> ms[k].value]

\* physical_bounds.get(variable, (None, None))
PhysicalBound(physical_bounds, variable) ==
    IF variable \in DOMAIN physical_bounds THEN physical_bounds[variable]
    ELSE <<None, None>>

\* round(x, 2), in hundredths
QcRound2(x) == RoundDiv(x, QcUnit)

\* Lines 58-76: the measurement a cleaned point carries for `measurement`.
CleanMeasurement(measurement, timeseries, physical_bounds, iqr_multiplier) ==
    LET bounds == PhysicalBound(physical_bounds, measurement.variable)
        iqr_bound == ComputeIqrBounds(ValuesOf(timeseries, measurement.variable),
                                      iqr_multiplier)
        value == measurement.value
        clipped_value == ClipValue(ClipValue(value, bounds[1], bounds[2]),
                                   iqr_bound[1], iqr_bound[2])
    IN MarineMeasurement(measurement.variable, clipped_value, measurement.unit,
                         IF QcRound2(clipped_value) # QcRound2(value) THEN "clipped"
                         ELSE measurement.quality_flag)

\* apply_quality_controls
ApplyQualityControls(timeseries, physical_bounds, iqr_multiplier) ==
    [i \in 1..Len(timeseries) |->
        MarineDataPoint(
            timeseries[i].timestamp,
            timeseries[i].position,
            [j \in 1..Len(timeseries[i].measurements) |->
                CleanMeasurement(timeseries[i].measurements[j], timeseries,
                                 physical_bounds, iqr_multiplier)],
            timeseries[i].metadata)]

\* Length of the series drawn.
MaxQcPoints == 5

\* Wave heights 0.0, 1.0 and 100.0 m; wind speeds of the first points.
QcWaveHeights == {0, 100 * QcUnit, 10000 * QcUnit}
QcWindSpeeds == <<100 * QcUnit, 100 * QcUnit, 100 * QcUnit, 900 * QcUnit>>
QcWindCounts == {0, 3, 4}

\* A series of points: each carries a wave height, the first `winds` points a
\* wind speed as well; the first wave height is an imputed one.
QcSeries(heights, winds) ==
    [i \in 1..Len(heights) |->
        MakePoint(i, "stormglass", FALSE,
            <<MarineMeasurement("significant_wave_height", heights[i], "m",
                                IF i = 1 THEN "imputed" ELSE "raw")>>
            \o (IF i <= winds
                THEN <<MarineMeasurement("wind_speed", QcWindSpeeds[i], "m/s", "raw")>>
                ELSE <<>>))]

\* Physical bounds: none, wave height in [0.0, 4.0], wave height <= 50.0 and
\* wind speed >= 2.0.
QcPhysicalBounds ==
    {<<>>,
     [v \in {"significant_wave_height"} |-> <<Num(0), Num(400 * QcUnit)>>],
     [v \in {"significant_wave_height", "wind_speed"} |->
        IF v = "wind_speed" THEN <<Num(200 * QcUnit), None>>
        ELSE <<None, Num(5000 * QcUnit)>>]}

\* iqr_multiplier 0.5 and 1.5 (the default)
QcMultipliers == {1, 3}

InitQc ==
    /\ \E n \in 0..MaxQcPoints :
       \E heights \in [1..n -> QcWaveHeights], winds \in QcWindCounts,
          pb \in QcPhysicalBounds, k \in QcMultipliers :
            /\ winds <= n
            /\ qc_in = [kind |-> "qc", timeseries |-> QcSeries(heights, winds),
                        physical_bounds |-> pb, iqr_multiplier |-> k]
    /\ qc_out = None
    /\ qc_again = None
    /\ ManagerAtRest
    /\ FusionAtRest
    /\ CacheAtRest
    /\ EriAtRest
    /\ EnsembleAtRest
    /\ BiasAtRest

\* apply_quality_controls(timeseries, physical_bounds, iqr_multiplier)
ApplyQc ==
    /\ qc_in # NoInputs
    /\ qc_out = None
    /\ qc_out' = [kind |-> "timeseries",
                  points |-> ApplyQualityControls(qc_in.timeseries, qc_in.physical_bounds,
                                                  qc_in.iqr_multiplier)]
    /\ UNCHANGED <<qc_in, qc_again>>
    /\ UNCHANGED <<mvars, fvars, evars, nvars, bvars>>
    /\ UNCHANGED cvars

\* apply_quality_controls applied to its own output, same bounds and multiplier
ApplyQcAgain ==
    /\ qc_out # None
    /\ qc_again = None
    /\ qc_again' = [kind |-> "timeseries",
                    points |-> ApplyQualityControls(qc_out.points, qc_in.physical_bounds,
                                                    qc_in.iqr_multiplier)]
    /\ UNCHANGED <<qc_in, qc_out>>
    /\ UNCHANGED <<mvars, fvars, evars, nvars, bvars>>
    /\ UNCHANGED cvars

NextQc == ApplyQc \/ ApplyQcAgain

SpecQc == InitQc /\ [][NextQc]_vars

(***************************************************************************)
(* marine_ops.core.ensemble                                                *)
(*                                                                         *)
(* Weights given by the caller are in 0.1, normalized weights in 0.0001,   *)
(* input values in 0.01; an ensemble value is the exact quotient, kept as  *)
(* a reduced fraction of 0.01s.                                            *)
(***************************************************************************)
Abs(x) == IF x < 0 THEN 0 - x ELSE x

RECURSIVE Gcd(_, _)
Gcd(a, b) == IF b = 0 THEN a ELSE Gcd(b, a % b)

\* num / den for den # 0, in lowest terms with a positive denominator.
Quotient(num, den) ==
    LET g == Gcd(Abs(num), Abs(den))
        sign == IF den < 0 THEN 0 - 1 ELSE 1
    IN [num |-> sign * (num \div g), den |-> sign * (den \div g)]

\* sum(mapping.values())
RECURSIVE SumValues(_)
SumValues(mapping) ==
    IF DOMAIN mapping = {} THEN 0
    ELSE LET k == CHOOSE x \in DOMAIN mapping : TRUE
         IN mapping[k] + SumValues([x \in DOMAIN mapping \ {k} |-> mapping[x]])

\* round(value / total, 4), in 0.0001
RoundRatio4(value, total) ==
    IF total > 0 THEN RoundDiv(value * 10000, total)
    ELSE RoundDiv((0 - value) * 10000, 0 - total)

\* _normalize_weights
NormalizeWeights(weights) ==
    LET total == SumValues(weights) IN
    IF total = 0 THEN Raised("ValueError")
    ELSE [kind |-> "weights",
          of |-> [source \in DOMAIN weights |-> RoundRatio4(weights[source], total)]]

\* Lines 39-49: the (key, point, measurement, weight) entries appended to
\* value_bucket, in the order of the loops.
RECURSIVE PointEntries(_, _, _)
PointEntries(point, measurements, weight) ==
    IF measurements = <<>> THEN <<>>
    ELSE <<[key |-> point.timestamp, measurement |-> Head(measurements), weight |-> weight]>>
             \o PointEntries(point, Tail(measurements), weight)

\* Lines 40-46: the points that are not skipped, in the order of the loops.
RECURSIVE WeightedPoints(_, _)
WeightedPoints(points, normalized) ==
    IF points = <<>> THEN <<>>
    ELSE (IF Head(points).metadata.source \in DOMAIN normalized
          THEN <<Head(points)>> ELSE <<>>)
             \o WeightedPoints(Tail(points), normalized)

RECURSIVE ConcatPoints(_)
ConcatPoints(series_list) ==
    IF series_list = <<>> THEN <<>>
    ELSE Head(series_list) \o ConcatPoints(Tail(series_list))

RECURSIVE BucketEntries(_, _)
BucketEntries(points, normalized) ==
    IF points = <<>> THEN <<>>
    ELSE PointEntries(Head(points), Head(points).measurements,
                      normalized[Head(points).metadata.source])
             \o BucketEntries(Tail(points), normalized)

\* The variables of the entries, each once, in order of first appearance
\* (the key order of the dict variable_map).
RECURSIVE VariablesOf(_)
VariablesOf(entries) ==
    IF entries = <<>> THEN <<>>
    ELSE LET v == Head(entries).measurement.variable
         IN <<v>> \o VariablesOf(SelectSeq(Tail(entries),
                                           LAMBDA e : e.measurement.variable # v))

\* Mutant of AggregateFlag: imputed tested before clipped.
AggregateFlag_ImputedFirst(entries) ==
    IF \E k \in 1..Len(entries) : entries[k].measurement.quality_flag = "imputed"
    THEN "imputed"
    ELSE IF \E k \in 1..Len(entries) : entries[k].measurement.quality_flag = "clipped"
    THEN "clipped"
    ELSE "raw"

\* Lines 62-68: the quality flag of the aggregate.
AggregateFlag(entries) ==
    IF \E k \in 1..Len(entries) : entries[k].measurement.quality_flag = "clipped"
    THEN "clipped"
    ELSE IF \E k \in 1..Len(entries) : entries[k].measurement.quality_flag = "imputed"
    THEN "imputed"
    ELSE "raw"

\* Lines 55-76: the aggregated measurements of one key; a variable whose
\* weights sum to zero is skipped.
RECURSIVE Aggregate(_, _)
Aggregate(variables, entries) ==
    IF variables = <<>> THEN <<>>
    ELSE LET measurements ==
                 SelectSeq(entries, LAMBDA e : e.measurement.variable = Head(variables))
             weight_sum == SumSeq([k \in 1..Len(measurements) |-> measurements[k].weight])
             weighted == SumSeq([k \in 1..Len(measurements) |->
                                    measurements[k].measurement.value * measurements[k].weight])
         IN (IF weight_sum = 0 THEN <<>>
             ELSE <<MarineMeasurement(Head(variables), Quotient(weighted, weight_sum),
                                      measurements[1].measurement.unit,
                                      AggregateFlag(measurements))>>)
                \o Aggregate(Tail(variables), entries)

\* Lines 52-92: the ensemble point of one key.
EnsemblePoint(key, points, entries) ==
    LET here == SelectSeq(points, LAMBDA p : p.timestamp = key)
        base_point == here[1]
        mine == SelectSeq(entries, LAMBDA e : e.key = key)
    IN MarineDataPoint(
           base_point.timestamp,
           base_point.position,
           Aggregate(VariablesOf(mine), mine),
           TimeseriesMetadata("ensemble", base_point.metadata.units,
                              \E k \in 1..Len(here) : here[k].metadata.bias_corrected,
                              10000))

\* sorted(...): the keys in ascending order.
RECURSIVE SortedKeys(_)
SortedKeys(keys) ==
    IF keys = {} THEN <<>>
    ELSE LET least == CHOOSE x \in keys : \A y \in keys : x <= y
         IN <<least>> \o SortedKeys(keys \ {least})

\* sorted(value_bucket.items()): the keys that hold an entry, ascending.
BucketKeys(entries) == SortedKeys({entries[k].key : k \in 1..Len(entries)})

\* weighted_ensemble
WeightedEnsemble(series_list, weights) ==
    LET normalized == NormalizeWeights(weights) IN
    IF normalized.kind = "raised" THEN normalized
    ELSE LET points == WeightedPoints(ConcatPoints(series_list), normalized.of)
             entries == BucketEntries(points, normalized.of)
             keys == BucketKeys(entries)
         IN [kind |-> "timeseries",
             points |-> [k \in 1..Len(keys) |-> EnsemblePoint(keys[k], points, entries)]]

\* Sources and the weight mappings a caller may give (in 0.1).
EnsSources == {"stormglass", "open-meteo", "noaa"}
EnsWeightValues == {-10, 0, 3, 7, 10}
EnsWeights ==
    UNION {[d -> EnsWeightValues] : d \in {{"stormglass", "open-meteo"}, EnsSources}}

\* One series per source; the second source reports wave height only, the
\* third is optional and not always weighted.
EnsSeriesList(hs_a, hs_b, with_c) ==
    <<
      <<MakePoint(0, "stormglass", FALSE,
            <<MarineMeasurement("significant_wave_height", hs_a, "m", "raw"),
              MarineMeasurement("wind_speed", 500, "m/s", "raw")>>),
        MakePoint(1, "stormglass", FALSE,
            <<MarineMeasurement("significant_wave_height", 150, "m", "raw")>>)>>,
      <<MakePoint(0, "open-meteo", TRUE,
            <<MarineMeasurement("significant_wave_height", hs_b, "m", "clipped")>>)>>
    >> \o (IF with_c
           THEN << <<MakePoint(0, "noaa", FALSE,
                        <<MarineMeasurement("wind_speed", 700, "m/s", "imputed"),
                          MarineMeasurement("significant_wave_height", 300, "m", "imputed")>>)>> >>
           ELSE <<>>)

InitEnsemble ==
    /\ \E hs_a \in {100, 200}, hs_b \in {200, 50}, with_c \in BOOLEAN, w \in EnsWeights :
          ens_in = [kind |-> "ensemble", series_list |-> EnsSeriesList(hs_a, hs_b, with_c),
                    weights |-> w]
    /\ ens_norm = None
    /\ ens_out = None
    /\ ManagerAtRest
    /\ FusionAtRest
    /\ CacheAtRest
    /\ EriAtRest
    /\ QcAtRest
    /\ BiasAtRest

\* weighted_ensemble(series_list, weights)
Ensemble ==
    /\ ens_in # NoInputs
    /\ ens_out = None
    /\ ens_norm' = NormalizeWeights(ens_in.weights)
    /\ ens_out' = WeightedEnsemble(ens_in.series_list, ens_in.weights)
    /\ UNCHANGED ens_in
    /\ UNCHANGED <<mvars, fvars, evars, qvars, bvars>>
    /\ UNCHANGED cvars

NextEnsemble == Ensemble

SpecEnsemble == InitEnsemble /\ [][NextEnsemble]_vars

(***************************************************************************)
(* marine_ops.core.bias                                                    *)
(*                                                                         *)
(* Values are in 0.001. The statistics of a list are kept as its length n, *)
(* its sum and root = sqrt(n * sum of squares - sum^2) (rounded down), so  *)
(* that mu = sum / n and sigma = root / n; sigma is 0 exactly when all the *)
(* values are equal, as with statistics.pstdev.                            *)
(***************************************************************************)
RECURSIVE NewtonSqrt(_, _)
NewtonSqrt(n, x) ==
    LET y == (x + n \div x) \div 2
    IN IF y >= x THEN x ELSE NewtonSqrt(n, y)

\* math.sqrt, rounded down to a whole unit
Sqrt(n) == IF n = 0 THEN 0 ELSE NewtonSqrt(n, n)

\* _stats
Stats(values) ==
    IF values = <<>> THEN [n |-> 1, sum |-> 0, root |-> 0]
    ELSE LET n == Len(values)
             sum == SumSeq(values)
             squares == SumSeq([k \in 1..n |-> values[k] * values[k]])
         IN [n |-> n, sum |-> sum,
             root |-> IF n > 1 THEN Sqrt(n * squares - sum * sum) ELSE 0]

\* Mutant of IsCloseZero: the zero-variance guard dropped.
IsCloseZero_Never(sigma) == FALSE

\* isclose(sigma, 0.0): with the default tolerances, sigma == 0.0
IsCloseZero(sigma) == sigma.root = 0

\* float division: ZeroDivisionError for a zero divisor
Divide(num, den) ==
    IF den = 0 THEN Raised("ZeroDivisionError")
    ELSE IF den > 0 THEN Num(RoundDiv(num, den))
    ELSE Num(RoundDiv(0 - num, 0 - den))

\* background.get(variable, [])
BackgroundValues(background, variable) ==
    IF variable \in DOMAIN background THEN background[variable] ELSE <<>>

\* Lines 53-60: `corrected` for one value;
\* ((value - mu_hat) / sigma_hat) * sigma_bg + mu_bg over one denominator.
Corrected(value, hat, bg) ==
    IF IsCloseZero(hat) \/ IsCloseZero(bg) THEN Num(value)
    ELSE Divide((hat.n * value - hat.sum) * bg.root + bg.sum * hat.root,
                hat.root * bg.n)

\* Lines 52-68: the measurement a corrected point carries for `measurement`;
\* an exception raised by the division leaves the function.
CorrectedMeasurement(measurement, timeseries, background) ==
    LET hat == Stats(ValuesOf(timeseries, measurement.variable))
        bg == Stats(BackgroundValues(background, measurement.variable))
        corrected == Corrected(measurement.value, hat, bg)
    IN IF corrected.kind = "raised" THEN corrected
       ELSE MarineMeasurement(measurement.variable, corrected.v, measurement.unit,
                              measurement.quality_flag)

\* Lines 49-84: the corrected points.
CorrectedPoints(timeseries, background) ==
    [i \in 1..Len(timeseries) |->
        MarineDataPoint(
            timeseries[i].timestamp,
            timeseries[i].position,
            [j \in 1..Len(timeseries[i].measurements) |->
                CorrectedMeasurement(timeseries[i].measurements[j], timeseries, background)],
            TimeseriesMetadata(timeseries[i].metadata.source,
                               timeseries[i].metadata.units,
                               TRUE,
                               timeseries[i].metadata.ensemble_weight))]

\* Mutant of ApplyBiasCorrection: `enabled` ignored.
ApplyBiasCorrection_AlwaysOn(timeseries, background, enabled) ==
    LET points == CorrectedPoints(timeseries, background) IN
    IF \E i \in 1..Len(points) : \E j \in 1..Len(points[i].measurements) :
          points[i].measurements[j] = Raised("ZeroDivisionError")
    THEN Raised("ZeroDivisionError")
    ELSE [kind |-> "timeseries", points |-> points]

\* apply_bias_correction
ApplyBiasCorrection(timeseries, background, enabled) ==
    IF ~enabled THEN [kind |-> "timeseries", points |-> timeseries]
    ELSE LET points == CorrectedPoints(timeseries, background) IN
         IF \E i \in 1..Len(points) : \E j \in 1..Len(points[i].measurements) :
               points[i].measurements[j] = Raised("ZeroDivisionError")
         THEN Raised("ZeroDivisionError")
         ELSE [kind |-> "timeseries", points |-> points]

\* Length of the series drawn.
MaxBiasPoints == 3

\* Wave heights 1.0 and 1.5 m; wind speeds of the first points.
BiasWaveHeights == {1000, 1500}
BiasWindSpeeds == <<5000, 5000, 7000, 7000>>

\* A series: each point carries a wave height, the first `winds` points a wind
\* speed as well; the last point is bias-corrected and clipped already.
BiasSeries(heights, winds) ==
    [i \in 1..Len(heights) |->
        MakePoint(i, "stormglass", i = Len(heights),
            <<MarineMeasurement("significant_wave_height", heights[i], "m",
                                IF i = Len(heights) THEN "clipped" ELSE "raw")>>
            \o (IF i <= winds
                THEN <<MarineMeasurement("wind_speed", BiasWindSpeeds[i], "m/s", "raw")>>
                ELSE <<>>))]

\* Backgrounds: none, an empty list, a single value, equal values, the
\* climatology of the tests, and one that covers both variables.
BiasBackgrounds ==
    {<<>>,
     [v \in {"significant_wave_height"} |-> <<>>],
     [v \in {"significant_wave_height"} |-> <<800>>],
     [v \in {"significant_wave_height"} |-> <<900, 900>>],
     [v \in {"significant_wave_height"} |-> <<800, 900, 1000>>],
     [v \in {"significant_wave_height", "wind_speed"} |->
        IF v = "wind_speed" THEN <<4000, 6000>> ELSE <<800, 900, 1000>>]}

InitBias ==
    /\ \E n \in 0..MaxBiasPoints :
       \E heights \in [1..n -> BiasWaveHeights], winds \in 0..n,
          bg \in BiasBackgrounds, enabled \in BOOLEAN :
            bias_in = [kind |-> "bias", timeseries |-> BiasSeries(heights, winds),
                       background |-> bg, enabled |-> enabled]
    /\ bias_out = None
    /\ ManagerAtRest
    /\ FusionAtRest
    /\ CacheAtRest
    /\ EriAtRest
    /\ QcAtRest
    /\ EnsembleAtRest

\* apply_bias_correction(timeseries, background, enabled)
BiasCorrect ==
    /\ bias_in # NoInputs
    /\ bias_out = None
    /\ bias_out' = ApplyBiasCorrection(bias_in.timeseries, bias_in.background,
                                       bias_in.enabled)
    /\ UNCHANGED bias_in
    /\ UNCHANGED <<mvars, fvars, evars, qvars, nvars>>
    /\ UNCHANGED cvars

NextBias == BiasCorrect

SpecBias == InitBias /\ [][NextBias]_vars

(***************************************************************************)
(* wv.utils.cache used by two processes on one cache directory: one runs   *)
(* ForecastCache.save, the other ForecastCache.load.                       *)
(*                                                                         *)
(* path.write_text opens the file for writing, which truncates it, and     *)
(* writes the text before it closes the file: between the two the file     *)
(* exists and is empty.                                                    *)
(***************************************************************************)
Writing(points, key, at) == [kind |-> "save", key |-> key, points |-> points, at |-> at]
\* A completed save; `over` tells whether it replaced an earlier entry.
Saved(points, at, over) == [kind |-> "saved", points |-> points, at |-> at, over |-> over]

\* The writer is between open and close of the file of this key.
BeingWritten(key) == writer # None /\ Digest(writer.key) = Digest(key)

InitCache ==
    /\ ttl_seconds \in 0..MaxTtl
    /\ stale_ttl_seconds \in 0..MaxTtl
    /\ files = [d \in Digests |-> NoFile]
    /\ now = 0
    /\ writer = None
    /\ loaded = None
    /\ lastSave = [d \in Digests |-> None]
    /\ providers = <<>>
    /\ pc = "idle"
    /\ req = None
    /\ cached = None
    /\ idx = 1
    /\ last_error = None
    /\ result = None
    /\ calls = <<>>
    /\ lastOutcome = None
    /\ t0 = 0
    /\ files0 = [d \in Digests |-> NoFile]
    /\ lastFetch = [d \in Digests |-> None]
    /\ lastFetch0 = [d \in Digests |-> None]
    /\ failed = 0
    /\ FusionAtRest
    /\ MarineOpsAtRest

\* save, lines 66-71 up to the open of write_text: the payload is built with
\* the current time and the file is truncated.
SaveOpen(key, points) ==
    /\ writer = None
    /\ writer' = Writing(points, key, now)
    /\ files' = [files EXCEPT ![Digest(key)] = EmptyFile]
    /\ UNCHANGED <<loaded, lastSave>>
    /\ UNCHANGED <<providers, ttl_seconds, stale_ttl_seconds, now, pc, req, cached, idx,
                   last_error, result, calls, lastOutcome, t0, files0, lastFetch,
                   lastFetch0, failed>>
    /\ UNCHANGED fvars
    /\ UNCHANGED ovars

\* save, the rest of write_text: the text is written and the file closed.
SaveClose ==
    /\ writer # None
    /\ files' = CacheSave(files, writer.key, writer.points, writer.at)
    /\ lastSave' = [lastSave EXCEPT ![Digest(writer.key)] =
                        Saved(writer.points, writer.at, @ # None)]
    /\ writer' = None
    /\ UNCHANGED loaded
    /\ UNCHANGED <<providers, ttl_seconds, stale_ttl_seconds, now, pc, req, cached, idx,
                   last_error, result, calls, lastOutcome, t0, files0, lastFetch,
                   lastFetch0, failed>>
    /\ UNCHANGED fvars
    /\ UNCHANGED ovars

\* load(key) by the other process.
Load(key) ==
    /\ loaded' = [kind |-> "load",
                  outcome |-> CacheLoad(files, key, ttl_seconds, stale_ttl_seconds, now)]
    /\ UNCHANGED <<writer, lastSave>>
    /\ UNCHANGED mvars
    /\ UNCHANGED fvars
    /\ UNCHANGED ovars

NextCache ==
    \/ \E key \in CacheKeys, points \in PointLists : SaveOpen(key, points)
    \/ SaveClose
    \/ \E key \in CacheKeys : Load(key)
    \/ Tick

SpecCache == InitCache /\ [][NextCache]_vars

(***************************************************************************)
(* fetch_with_fallback called for one place and for the places and hours  *)
(* next to it, over a cache directory that holds the entry of the place    *)
(* and at most one entry more.                                             *)
(***************************************************************************)
Here == Request(2430004, 5440000, 48)

InitSlots ==
    /\ providers = SubSeq(ProviderNames, 1, 2)
    /\ ttl_seconds \in 1..MaxTtl
    /\ stale_ttl_seconds \in 0..MaxTtl
    /\ files = [d \in Digests |-> NoFile]
    /\ now = 0
    /\ pc = "idle"
    /\ req = None
    /\ cached = None
    /\ idx = 1
    /\ last_error = None
    /\ result = None
    /\ calls = <<>>
    /\ lastOutcome = None
    /\ t0 = 0
    /\ files0 = [d \in Digests |-> NoFile]
    /\ lastFetch = [d \in Digests |-> None]
    /\ lastFetch0 = [d \in Digests |-> None]
    /\ failed = 0
    /\ FusionAtRest
    /\ MarineOpsAtRest
    /\ CacheAtRest

\* fetch_with_fallback(r.lat, r.lon, r.hours), while the directory has room
\* for the entry of the request.
StartSlot(r) ==
    /\ \A d \in Digests :
            (files[d] # NoFile /\ d # Digest(RequestKey(Here)))
                => Digest(RequestKey(r)) \in {d, Digest(RequestKey(Here))}
    /\ Start(r.lat, r.lon, r.hours)

\* What a provider does in these requests: it times out or returns points.
SlotOutcomes == {ProviderError("timeout")} \cup {Returned(p) : p \in PointLists}

NextSlots ==
    \/ \E r \in SlotRequests : StartSlot(r)
    \/ \E outcome \in SlotOutcomes : Attempt(outcome)
    \/ Finish
    \/ Tick

SpecSlots == InitSlots /\ [][NextSlots]_vars

(***************************************************************************)
(* Properties of fetch_with_fallback and ForecastCache.                    *)
(***************************************************************************)
\* The slot of the request in flight, what a provider last saved there before
\* the request started, and how old that was when the request started.
ReqDigest == Digest(RequestKey(req))
Written0 == lastFetch0[ReqDigest].kind = "fetched"
Age0 == t0 - lastFetch0[ReqDigest].at
Points0 == lastFetch0[ReqDigest].points
InRequest == pc \in {"loop", "done"}
Ended == pc = "done"
AllFailed == Len(calls) = Len(providers) /\ failed = Len(providers)
IsPrefixOfProviders(cs) ==
    /\ Len(cs) <= Len(providers)
    /\ \A i \in 1..Len(cs) : cs[i] = providers[i]

\* C1 as stated: a request that starts while its slot holds an entry of
\* age <= TTL returns that entry's points and invokes no provider.
C1_FreshWithinTtl ==
    (Ended /\ files0[ReqDigest] # NoFile
        /\ t0 - FromIsoFormat(files0[ReqDigest].timestamp).t <= ttl_seconds)
    => (/\ result = Return(ValidateAll(files0[ReqDigest].points), "fresh")
        /\ calls = <<>>)

\* C1 amended: a request that starts while its slot holds an entry of
\* age <= TTL and age <= stale-TTL returns that entry's points and invokes no
\* provider, whatever the provider list is.
C1_FreshHitNoProvider ==
    (Ended /\ files0[ReqDigest] # NoFile
        /\ t0 - FromIsoFormat(files0[ReqDigest].timestamp).t <= ttl_seconds
        /\ t0 - FromIsoFormat(files0[ReqDigest].timestamp).t <= stale_ttl_seconds)
    => (/\ result = Return(ValidateAll(files0[ReqDigest].points), "fresh")
        /\ calls = <<>>
        /\ files = files0)

C1_Witness ==
    /\ Ended
    /\ Len(providers) = MaxProviders
    /\ files0[ReqDigest] # NoFile
    /\ t0 - FromIsoFormat(files0[ReqDigest].timestamp).t = ttl_seconds
    /\ ttl_seconds > 0
    /\ result.kind = "return" /\ result.src = "fresh"
    /\ calls = <<>>

\* C2: without a fresh entry the providers are invoked one at a time in the
\* configured order, each at most once; every invoked provider but the latest
\* has failed, and a provider that returned points ends the request, so at
\* most one provider call of a request succeeds.
C2_OrderedFallback ==
    InRequest =>
        /\ IsPrefixOfProviders(calls)
        /\ failed <= Len(calls)
        /\ Len(calls) <= failed + 1
        /\ (pc = "loop" => (failed = Len(calls) /\ idx = Len(calls) + 1))
        /\ (Len(calls) = failed + 1 =>
                /\ Ended
                /\ lastOutcome.kind = "points" /\ lastOutcome.points # <<>>
                /\ result = Return(lastOutcome.points, "provider"))
        /\ ((Ended /\ result.kind = "return" /\ result.src = "provider")
                => Len(calls) = failed + 1)

C2_Witness ==
    /\ Ended
    /\ calls = <<"Stormglass", "Open-Meteo", "NOAA">>
    /\ failed = 2
    /\ result = Return(PointsA, "provider")

\* C3 as stated: a provider's non-empty result is in the cache when the call
\* returns, and a later request for the same slot that starts within TTL of
\* that write returns the same points and invokes no provider.
C3_CachedWithinTtl ==
    /\ (Ended /\ result.kind = "return" /\ result.src = "provider")
        => (/\ files[ReqDigest] # NoFile
            /\ ValidateAll(files[ReqDigest].points) = result.points
            /\ lastFetch[ReqDigest].points = result.points)
    /\ (Ended /\ Written0 /\ Age0 <= ttl_seconds)
        => (result.kind = "return" /\ result.points = Points0 /\ calls = <<>>)

\* C3 amended: ... a later request for the same slot that starts within TTL
\* and within stale-TTL of that write returns the same points and invokes no
\* provider.
C3_SavedThenServed ==
    /\ (Ended /\ result.kind = "return" /\ result.src = "provider")
        => (/\ files[ReqDigest] # NoFile
            /\ ValidateAll(files[ReqDigest].points) = result.points
            /\ FromIsoFormat(files[ReqDigest].timestamp).t >= t0
            /\ FromIsoFormat(files[ReqDigest].timestamp).t <= now
            /\ lastFetch[ReqDigest].points = result.points)
    /\ (Ended /\ Written0 /\ Age0 <= ttl_seconds /\ Age0 <= stale_ttl_seconds)
        => (result.kind = "return" /\ result.points = Points0 /\ calls = <<>>)

C3_Witness ==
    /\ Ended
    /\ Written0 /\ Age0 = 1 /\ ttl_seconds >= 1 /\ stale_ttl_seconds >= 1
    /\ Len(providers) >= 1
    /\ result = Return(PointsB, "fresh")
    /\ calls = <<>>

\* C4: a request that starts after TTL but no later than stale-TTL after the
\* slot was written by a successful fetch, and in which every configured
\* provider fails, returns the stale cached points instead of raising.
C4_StaleFallback ==
    (Ended /\ Written0 /\ Age0 > ttl_seconds /\ Age0 <= stale_ttl_seconds /\ AllFailed)
    => result = Return(Points0, "stale")

C4_Witness ==
    /\ Ended
    /\ Written0 /\ Age0 > ttl_seconds /\ Age0 <= stale_ttl_seconds
    /\ Len(providers) >= 2 /\ AllFailed
    /\ result = Return(PointsA, "stale")

\* C5: when every provider fails and the slot held no usable entry when the
\* request started (never written, or older than stale-TTL), the call raises
\* ProviderError with the code of the last provider's failure ("empty" if it
\* returned no points), and with "unknown" when no provider is configured.
C5_LastFailureCode ==
    (Ended /\ AllFailed /\ (~Written0 \/ Age0 > stale_ttl_seconds))
    => result = Raise(IF providers = <<>> THEN "unknown"
                      ELSE IF lastOutcome.kind = "ProviderError" THEN lastOutcome.code
                      ELSE "empty")

C5_Witness ==
    /\ Ended /\ AllFailed
    /\ Len(providers) >= 2
    /\ Written0 /\ Age0 > stale_ttl_seconds
    /\ last_error = ProviderError("empty")
    /\ result = Raise("empty")

\* C6: a provider's empty result is a failure: it is not written to the cache,
\* it is not returned, the next provider in order is tried, and no successful
\* return carries an empty point list.
C6_EmptyIsFailure ==
    /\ (InRequest /\ lastOutcome = Returned(<<>>))
        => (/\ files = files0
            /\ last_error = ProviderError("empty")
            /\ failed = Len(calls)
            /\ idx = Len(calls) + 1
            /\ (Ended => (result.kind = "raise" \/ result = Return(Points0, "stale"))))
    /\ (Ended /\ result.kind = "return") => result.points # <<>>

C6_Witness ==
    /\ pc = "loop"
    /\ lastOutcome = Returned(<<>>)
    /\ idx <= Len(providers)
    /\ files0[ReqDigest] # NoFile

\* Steps of the request a call in flight still has to take, at most.
StepsLeft == IF pc = "loop" THEN Len(providers) + 2 - idx ELSE 0

C8_LoadByAgeAnyPair ==
    InRequest =>
        /\ (cached.kind = "entry" /\ cached.fresh) <=> (Written0 /\ Age0 <= ttl_seconds)
        /\ (cached.kind = "entry" /\ ~cached.fresh)
            <=> (Written0 /\ Age0 > ttl_seconds /\ Age0 <= stale_ttl_seconds)
        /\ (cached = None) <=> (~Written0 \/ Age0 > stale_ttl_seconds)

\* C8 amended: load returns a fresh entry exactly when the slot was written and
\* its age <= TTL and <= stale-TTL, a stale entry exactly when
\* TTL < age <= stale-TTL, and a miss (None, no exception) exactly when the
\* slot was never written or its age > stale-TTL.
C8_LoadByAge ==
    InRequest =>
        /\ (cached.kind = "entry" /\ cached.fresh)
            <=> (Written0 /\ Age0 <= ttl_seconds /\ Age0 <= stale_ttl_seconds)
        /\ (cached.kind = "entry" /\ ~cached.fresh)
            <=> (Written0 /\ Age0 > ttl_seconds /\ Age0 <= stale_ttl_seconds)
        /\ (cached = None) <=> (~Written0 \/ Age0 > stale_ttl_seconds)

C8_Witness ==
    /\ InRequest
    /\ Written0 /\ Age0 = ttl_seconds /\ ttl_seconds = 1 /\ stale_ttl_seconds = MaxTtl
    /\ cached.kind = "entry" /\ cached.fresh

\* C20: stale data is a last resort. A request that starts with a stale entry
\* in its slot (written, older than TTL) returns cached points only after
\* every configured provider was invoked and failed; if a provider succeeds,
\* its points are returned and the slot holds them in place of the stale
\* entry.
C20_StaleLastResort ==
    /\ (Ended /\ Written0 /\ Age0 > ttl_seconds
            /\ result.kind = "return" /\ result.src # "provider")
        => (/\ calls = providers
            /\ failed = Len(providers)
            /\ result = Return(Points0, "stale")
            /\ files = files0)
    /\ (Ended /\ result.kind = "return" /\ result.src = "stale")
        => (cached.kind = "entry" /\ ~cached.fresh /\ AllFailed)
    /\ (Ended /\ lastOutcome.kind = "points" /\ lastOutcome.points # <<>>)
        => (/\ result = Return(lastOutcome.points, "provider")
            /\ ValidateAll(files[ReqDigest].points) = lastOutcome.points
            /\ FromIsoFormat(files[ReqDigest].timestamp).t >= t0
            /\ ((Written0 /\ Age0 > ttl_seconds)
                    => files[ReqDigest] # files0[ReqDigest]))

C20_Witness ==
    /\ Ended
    /\ Written0 /\ Age0 > ttl_seconds /\ Age0 <= stale_ttl_seconds
    /\ cached.kind = "entry" /\ ~cached.fresh
    /\ Len(calls) = 2 /\ failed = 1
    /\ cached.points = PointsA
    /\ result = Return(PointsB, "provider")
    /\ ValidateAll(files[ReqDigest].points) = PointsB

\* C26: a request in which every provider fails leaves the cache directory
\* as it was when the request started (stored points and write timestamp of
\* every entry, the served stale entry included), and if the request started
\* more than stale-TTL after the slot's last successful fetch it raises
\* ProviderError instead of returning cached data.
C26_AllFailLeavesCache ==
    /\ (Ended /\ AllFailed) => (files = files0 /\ lastFetch = lastFetch0)
    /\ (Ended /\ result.kind = "return" /\ result.src = "stale")
        => (/\ files[ReqDigest] = files0[ReqDigest]
            /\ FromIsoFormat(files[ReqDigest].timestamp).t = lastFetch0[ReqDigest].at)
    /\ (Ended /\ AllFailed /\ Written0 /\ Age0 > stale_ttl_seconds)
        => (result.kind = "raise" /\ result.exc = "ProviderError")

C26_Witness ==
    /\ Ended
    /\ Len(providers) >= 2 /\ AllFailed
    /\ Written0 /\ Age0 > stale_ttl_seconds
    /\ stale_ttl_seconds >= 1
    /\ result = Raise("quota")
    /\ files = files0
    /\ ValidateAll(files[ReqDigest].points) = PointsA

\* C27: starting from an empty cache directory and using fetch_with_fallback
\* only, every cache entry holds a non-empty point list, and every successful
\* return (fresh hit, provider fetch, stale fallback) is a non-empty list.
C27_NonEmptyEntries ==
    /\ \A d \in Digests :
            files[d] # NoFile => (files[d].kind = "json" /\ files[d].points # <<>>)
    /\ (Ended /\ result.kind = "return") => result.points # <<>>
    /\ cached.kind = "entry" => cached.points # <<>>

C27_Witness ==
    /\ Ended
    /\ result = Return(PointsB, "stale")
    /\ failed >= 1
    /\ lastOutcome = Returned(<<>>)
    /\ files[ReqDigest].points = DumpAll(PointsB)

\* A coordinate as it prints with 4 decimals: its sign and its magnitude
\* rounded to 0.0001.
Shown4(x) == IF x < 0 THEN <<"-", (5 - x) \div 10>> ELSE <<"", (x + 5) \div 10>>

\* Equal hours, and coordinates that agree as printed with 4 decimals.
SameSlot(a, b) ==
    /\ a.hours = b.hours
    /\ Shown4(a.lat) = Shown4(b.lat)
    /\ Shown4(a.lon) = Shown4(b.lon)

\* The request in flight uses the entry of another request exactly when the
\* two are of the same slot; the scope of the key is 'multi'; a request
\* returns cached points only from an entry fetched for a request of its
\* slot, whichever provider produced them; entries fetched for a request of
\* another slot are not the entry the request reads.
SlotsApart ==
    /\ InRequest =>
        /\ \A other \in SlotRequests :
                (ReqDigest = Digest(RequestKey(other))) <=> SameSlot(req, other)
        /\ RequestKey(req).provider = "multi"
        /\ cached = CacheLoad(files0, RequestKey(req), ttl_seconds, stale_ttl_seconds, t0)
        /\ \A d \in Digests :
                lastFetch0[d].kind = "fetched"
                    => ((d = ReqDigest) <=> SameSlot(lastFetch0[d].by, req))
    /\ (Ended /\ result.kind = "return" /\ result.src # "provider")
        => (/\ Written0
            /\ SameSlot(lastFetch0[ReqDigest].by, req)
            /\ result.points = Points0)

\* C29 as stated: ... so within TTL a request is answered with the points
\* cached for the other request ...
C29_SlotWithinTtl ==
    /\ SlotsApart
    /\ (Ended /\ Written0 /\ Age0 <= ttl_seconds)
        => (result = Return(Points0, "fresh") /\ calls = <<>>)

\* C29 amended: ... so within TTL and stale-TTL a request is answered with
\* the points cached for the other request ...
C29_SlotWithinBothTtls ==
    /\ SlotsApart
    /\ (Ended /\ Written0 /\ Age0 <= ttl_seconds /\ Age0 <= stale_ttl_seconds)
        => (result = Return(Points0, "fresh") /\ calls = <<>>)

C29_Witness ==
    /\ Ended
    /\ req = Request(2430001, 5440000, 48)
    /\ Written0
    /\ lastFetch0[ReqDigest].by = Request(2430004, 5440000, 48)
    /\ lastFetch0[ReqDigest].points = PointsB
    /\ lastFetch0[Digest(RequestKey(Request(2430006, 5440000, 48)))].kind = "fetched"
    /\ lastFetch0[Digest(RequestKey(Request(2430006, 5440000, 48)))].points = PointsA
    /\ Age0 = 1
    /\ result = Return(PointsB, "fresh")
    /\ calls = <<>>

(***************************************************************************)
(* Properties of ForecastCache used by two processes.                      *)
(***************************************************************************)
\* What the latest completed save stored under the key, and its age now.
LastSaved(key) == lastSave[Digest(key)]
SavedAge(key) == now - LastSaved(key).at

\* A save step leaves every file but the one of its key as it was.
SaveFrame ==
    /\ \A key \in CacheKeys, points \in PointLists :
          SaveOpen(key, points) =>
              \A d \in Digests \ {Digest(key)} : files'[d] = files[d]
    /\ SaveClose =>
          /\ \A d \in Digests \ {Digest(writer.key)} : files'[d] = files[d]
          /\ files'[Digest(writer.key)] = CachePayload(writer.points, writer.at)

\* Keys that differ in the provider scope address different entries.
ScopesApart ==
    \A k1 \in CacheKeys, k2 \in CacheKeys :
        k1.provider # k2.provider => Digest(k1) # Digest(k2)

\* C21 as stated: after the saves made to a key, a load of that key within TTL
\* of the last save returns the points of the last save, marked fresh; saves
\* leave the entries of other keys alone.
C21_LoadWithinTtl ==
    /\ [][\A key \in CacheKeys :
            (/\ Load(key)
             /\ ~BeingWritten(key)
             /\ LastSaved(key) # None
             /\ SavedAge(key) <= ttl_seconds)
            => loaded'.outcome = CacheEntry(LastSaved(key).points, TRUE)]_vars
    /\ [][SaveFrame]_vars
    /\ []ScopesApart

\* C21 amended: after the saves made to a key, a load of that key within TTL
\* and within stale-TTL of the last save returns exactly the points of the
\* last save, marked fresh, the age counted from the last save; equal keys
\* address one entry, keys of another provider scope another one, and a save
\* leaves the entries of other keys alone.
C21_SaveOverwrites ==
    /\ [][\A key \in CacheKeys :
            (/\ Load(key)
             /\ ~BeingWritten(key)
             /\ LastSaved(key) # None
             /\ SavedAge(key) <= ttl_seconds
             /\ SavedAge(key) <= stale_ttl_seconds)
            => loaded'.outcome = CacheEntry(LastSaved(key).points, TRUE)]_vars
    /\ [][SaveFrame]_vars
    /\ []ScopesApart

C21_Witness ==
    /\ loaded # None
    /\ writer = None
    /\ LastSaved(CacheKey("multi", 2430004, 5440000, 48)) = Saved(PointsB, 1, TRUE)
    /\ lastSave[Digest(CacheKey("stormglass", 2430004, 5440000, 48))] = Saved(PointsA, 0, FALSE)
    /\ now = 2
    /\ ttl_seconds = 1
    /\ loaded.outcome = CacheEntry(PointsB, TRUE)

\* C28: a load of a key made while another process saves that key gets the
\* previous entry, the new entry or a miss; it never reads a file that is
\* written in part and never fails because of the write.
C28_ReaderNeverFails ==
    [][\A key \in CacheKeys :
          Load(key) =>
              \/ loaded'.outcome = None
              \/ /\ loaded'.outcome.kind = "entry"
                 /\ \/ /\ LastSaved(key) # None
                       /\ loaded'.outcome.points = LastSaved(key).points
                    \/ /\ BeingWritten(key)
                       /\ loaded'.outcome.points = writer.points]_vars

(***************************************************************************)
(* Properties of decide_and_eta.                                           *)
(***************************************************************************)
Decided == fres # None

\* Two characters that are the same letter, whatever their case.
SameLetter(a, b) ==
    a = b \/ \E i \in 1..Len(UpperCase) :
                {a, b} = {UpperCase[i], LowerCase[i]}

\* The text, after its leading blanks, starts with the word, whatever the case.
StartsWithWord(alert, word) ==
    /\ alert # None
    /\ LET cs == alert.chars IN
       \E k \in 0..Len(cs) :
           /\ \A i \in 1..k : cs[i] = " "
           /\ Len(cs) >= k + Len(word)
           /\ cs[k + 1] # " "
           /\ \A j \in 1..Len(word) : SameLetter(cs[k + j], word[j])

ForcedAlert == StartsWithWord(fin.alert, HighSeas) \/ StartsWithWord(fin.alert, Fog)

\* C9: for every input whose alert starts with "high seas" or with "fog"
\* (case-insensitive, trimmed) the returned decision is "No-Go", whatever the
\* heights, winds and offshore_weight.
C9_ForcedNoGo ==
    (Decided /\ ForcedAlert) => fres.decision = "No-Go"

\* C10: the returned decision is "Go" exactly when the alert is not a forced
\* one and hs_fused <= 1.0 m and wind_fused <= 20 kt and gamma = 0; when not
\* forced and not "Go", the decision before the coastal-window rule is "No-Go"
\* if hs_fused > 1.2 m or wind_fused > 22 kt and "Conditional Go" otherwise.
C10_GoRule ==
    Decided =>
        /\ (fres.decision = "Go")
            <=> (/\ ~ForcedAlert
                 /\ HsFused(fin) <= HsDen
                 /\ WindFused(fin) <= 200
                 /\ AlertGamma(fin.alert) = 0)
        /\ (~ForcedAlert /\ fres.decision # "Go")
            => fprec.decision =
                  IF HsFused(fin) > 12 * (HsDen \div 10) \/ WindFused(fin) > 220
                  THEN "No-Go"
                  ELSE "Conditional Go"

C10_Witness ==
    /\ Decided
    /\ fres.decision = "Go"
    /\ WindFused(fin) = 200
    /\ fin.offshore_weight > 8

\* C11: the returned decision is "Conditional Go (coastal window)" exactly
\* when the decision of the precedence rules is "No-Go" and
\* offshore_weight <= 0.40 and hs_onshore_m <= 1.0 and gamma <= 0.15 (the alert
\* does not start with "high seas"); in every other case the decision of the
\* precedence rules is returned unchanged, so "Go" and "Conditional Go" are
\* never altered.
C11_CoastalWindow ==
    Decided =>
        /\ (fres.decision = "Conditional Go (coastal window)")
            <=> (/\ fprec.decision = "No-Go"
                 /\ fin.offshore_weight <= 8
                 /\ fin.hs_onshore_ft * FtToMNum <= 10 * FtToMDen
                 /\ ~StartsWithWord(fin.alert, HighSeas))
        /\ (fres.decision # "Conditional Go (coastal window)")
            => fres.decision = fprec.decision
        /\ (fprec.decision \in {"Go", "Conditional Go"})
            => fres.decision = fprec.decision

C11_Witness ==
    /\ Decided
    /\ fres.decision = "Conditional Go (coastal window)"
    /\ fin.offshore_weight = 8
    /\ AlertGamma(fin.alert) = 3
    /\ WindFused(fin) > 220

\* wind_factor * max(wind_fused - 10, 0) + wave_factor * hs_fused, as a speed.
StatedPenalties(inp) ==
    LET wave == inp.wave_factor * HsFused(inp) IN
    Kt(inp.wind_factor * (IF WindFused(inp) > 100 THEN WindFused(inp) - 100 ELSE 0)
            + wave \div Mega,
       wave % Mega)

\* Fractions nm / kt with positive kt, compared by cross-multiplication.
EtaLe(a, b) == KtLe(KtTimes(a.nm, b.kt), KtTimes(b.nm, a.kt))

\* The effective speed is planned speed minus the penalties, never below
\* 0.1 kt; the unrounded eta is finite and positive and at most
\* distance / 0.1; buffer_minutes is 45 up to offshore_weight 0.40, else 60.
SpeedFloored ==
    LET speed == fprec.effective_speed
        planned == Kt(fin.planned_speed_kt, 0)
    IN /\ KtLe(MinSpeedKt, speed)
       /\ IF KtLe(KtPlus(MinSpeedKt, StatedPenalties(fin)), planned)
          THEN KtPlus(speed, StatedPenalties(fin)) = planned
          ELSE speed = MinSpeedKt
       /\ fprec.eta_hours = [nm |-> fin.distance_nm, kt |-> speed]
       /\ fprec.eta_hours.nm > 0
       /\ KtLe(Kt(0, 1), fprec.eta_hours.kt)
       /\ EtaLe(fprec.eta_hours, [nm |-> fin.distance_nm, kt |-> MinSpeedKt])
       /\ fres.buffer_minutes = (IF fin.offshore_weight <= 8 THEN 45 ELSE 60)

EriDone == eri_out # None

\* The point carries no measurement of the variable.
Lacks(point, variable) ==
    \A j \in 1..Len(point.measurements) : point.measurements[j].variable # variable

\* A value the rule gives no penalty for.
SafeValue(rule) == IF rule.direction = "max" THEN rule.caution - 1 ELSE rule.caution + 1

\* The point with a safe measurement for the rule's variable added.
WithSafeValue(point, rule) ==
    [point EXCEPT !.measurements =
        Append(@, MarineMeasurement(rule.variable, SafeValue(rule), "", "raw"))]

\* C12: for every series and every rule set (any base_score, penalties,
\* weights, thresholds and directions), every returned ERIPoint has
\* 0 <= score <= base_score.
C12_ScoreBounded ==
    EriDone =>
        \A i \in 1..Len(eri_out.points) :
            /\ 0 <= eri_out.points[i].score
            /\ eri_out.points[i].score <= eri_in.rule_set.base_score

\* C13: for each point has_missing is true exactly when some rule's variable
\* has no measurement in the point; each such rule adds exactly
\* weight * caution_penalty to the penalty; so the point never scores higher
\* than the same point carrying a safe value for that variable.
C13_MissingIsCaution ==
    EriDone =>
        \A i \in 1..Len(eri_out.points) :
            LET point == eri_in.timeseries[i]
                rule_set == eri_in.rule_set
                rules == rule_set.rules
            IN /\ eri_out.points[i].quality.has_missing
                    <=> (\E k \in 1..Len(rules) : Lacks(point, rules[k].variable))
               /\ \A k \in 1..Len(rules) :
                    Lacks(point, rules[k].variable) =>
                        LET safe == WithSafeValue(point, rules[k]) IN
                        /\ Penalty(point, rule_set) - Penalty(safe, rule_set)
                            = SumSeq([m \in 1..Len(rules) |->
                                        IF rules[m].variable = rules[k].variable
                                        THEN rules[m].weight * rule_set.caution_penalty
                                        ELSE 0])
                        /\ eri_out.points[i].score
                            <= ComputeEriPoint(safe, rule_set).score

\* The penalty the rule stands for at the point, by the rule's direction:
\* danger_penalty, caution_penalty or nothing for the value the point carries
\* for the rule's variable, caution_penalty when it carries none.
StatedPenalty(point, rule, rule_set) ==
    LET ms == point.measurements
        at == {j \in 1..Len(ms) : ms[j].variable = rule.variable}
    IN IF at = {} THEN rule_set.caution_penalty
       ELSE LET value == ms[CHOOSE j \in at : \A k \in at : j <= k].value IN
            IF rule.direction = "max"
            THEN IF value >= rule.danger THEN rule_set.danger_penalty
                 ELSE IF value >= rule.caution THEN rule_set.caution_penalty
                 ELSE 0
            ELSE IF value <= rule.danger THEN rule_set.danger_penalty
                 ELSE IF value <= rule.caution THEN rule_set.caution_penalty
                 ELSE 0

\* max(0, base_score - sum over the rules of weight * penalty), in 0.001
StatedScore(point, rule_set) ==
    LET total == SumSeq([k \in 1..Len(rule_set.rules) |->
                            rule_set.rules[k].weight
                                * StatedPenalty(point, rule_set.rules[k], rule_set)])
    IN IF rule_set.base_score - total > 0 THEN rule_set.base_score - total ELSE 0

\* The point without the measurements of variables that no rule names.
OnlyRuled(point, rule_set) ==
    [point EXCEPT !.measurements =
        SelectSeq(@, LAMBDA m : \E k \in 1..Len(rule_set.rules) :
                                    rule_set.rules[k].variable = m.variable)]

\* C23 as stated: one ERIPoint per input point, in input order, whose score is
\* max(0, base_score - sum over rules of weight * penalty) with the penalty of
\* each rule chosen by its direction and thresholds; measurements of variables
\* that no rule names do not affect the score.
C23_ScoreFormula ==
    EriDone =>
        /\ Len(eri_out.points) = Len(eri_in.timeseries)
        /\ \A i \in 1..Len(eri_in.timeseries) :
              /\ eri_out.points[i].timestamp = eri_in.timeseries[i].timestamp
              /\ eri_out.points[i].score
                    = StatedScore(eri_in.timeseries[i], eri_in.rule_set)
              /\ eri_out.points[i].score
                    = StatedScore(OnlyRuled(eri_in.timeseries[i], eri_in.rule_set),
                                  eri_in.rule_set)

\* C23 amended: ... whose score is max(0, base_score - sum over rules of
\* weight * penalty) rounded to 2 decimals ...
C23_RoundedScoreFormula ==
    EriDone =>
        /\ Len(eri_out.points) = Len(eri_in.timeseries)
        /\ \A i \in 1..Len(eri_in.timeseries) :
              /\ eri_out.points[i].timestamp = eri_in.timeseries[i].timestamp
              /\ eri_out.points[i].score
                    = 10 * RoundDiv(StatedScore(eri_in.timeseries[i], eri_in.rule_set), 10)
              /\ eri_out.points[i]
                    = ComputeEriPoint(OnlyRuled(eri_in.timeseries[i], eri_in.rule_set),
                                      eri_in.rule_set)

C23_Witness ==
    /\ EriDone
    /\ Len(eri_out.points) = 2
    /\ eri_in.rule_set =
          ERIRuleSet(100000, 1000, 2500,
                     <<ThresholdRule("significant_wave_height", 10, 20, 10, "max")>>)
    /\ eri_in.timeseries[1].measurements
          = <<MarineMeasurement("significant_wave_height", 20, "m", "raw"),
              MarineMeasurement("visibility", 60, "km", "raw")>>
    /\ eri_in.timeseries[2].measurements
          = <<MarineMeasurement("significant_wave_height", 10, "m", "raw")>>
    /\ eri_out.points[1].score = 75000
    /\ eri_out.points[2].score = 90000
    /\ eri_out.points[1].timestamp = 0
    /\ eri_out.points[2].timestamp = 1

\* The point with the value of its (first) measurement of the variable
\* replaced, everything else as it is.
WithValue(point, variable, value) ==
    LET ms == point.measurements
        at == {j \in 1..Len(ms) : ms[j].variable = variable}
        first == CHOOSE j \in at : \A k \in at : j <= k
    IN [point EXCEPT !.measurements =
            [j \in 1..Len(ms) |-> IF j = first THEN [ms[j] EXCEPT !.value = value]
                                  ELSE ms[j]]]

\* Values a measurement is moved to: below, at and above every threshold.
EriMovedValues == {0, 5, 6, 7, 10, 15, 20, 30, 50, 60, 70}

\* Non-negative weights and 0 <= caution_penalty <= danger_penalty.
OrderedRuleSet(rule_set) ==
    /\ \A k \in 1..Len(rule_set.rules) : rule_set.rules[k].weight >= 0
    /\ 0 <= rule_set.caution_penalty
    /\ rule_set.caution_penalty <= rule_set.danger_penalty

\* Every rule of the rule set that names the variable has this direction.
OneDirection(rule_set, variable, direction) ==
    \A k \in 1..Len(rule_set.rules) :
        rule_set.rules[k].variable = variable
            => rule_set.rules[k].direction = direction

\* Moving the value of the variable of rule k in point i against the rule
\* (up for 'max', down otherwise) never raises the score of the point.
NeverRaises(i, k) ==
    LET point == eri_in.timeseries[i]
        rule_set == eri_in.rule_set
        rule == rule_set.rules[k]
        measurement == FindMeasurement(point, rule.variable)
    IN (measurement # None) =>
         \A v \in EriMovedValues :
            (\/ (rule.direction = "max" /\ rule.caution <= rule.danger
                    /\ v >= measurement.value)
             \/ (rule.direction # "max" /\ rule.danger <= rule.caution
                    /\ v <= measurement.value))
            => ComputeEriPoint(WithValue(point, rule.variable, v), rule_set).score
                    <= eri_out.points[i].score

\* C30 as stated: for a rule set with non-negative weights and
\* 0 <= caution_penalty <= danger_penalty and a rule with direction 'max' and
\* caution <= danger, raising the value of the rule's variable in a point,
\* all else equal, never raises the point's score (for another direction with
\* danger <= caution, lowering the value never raises it).
C30_Monotone ==
    (EriDone /\ OrderedRuleSet(eri_in.rule_set)) =>
        \A i \in 1..Len(eri_in.timeseries) :
            \A k \in 1..Len(eri_in.rule_set.rules) : NeverRaises(i, k)

\* C30 amended: ... provided every rule of the rule set that names the
\* variable has the direction of that rule.
C30_MonotoneOneDirection ==
    (EriDone /\ OrderedRuleSet(eri_in.rule_set)) =>
        \A i \in 1..Len(eri_in.timeseries) :
            \A k \in 1..Len(eri_in.rule_set.rules) :
                LET rule == eri_in.rule_set.rules[k] IN
                OneDirection(eri_in.rule_set, rule.variable, rule.direction)
                    => NeverRaises(i, k)

C30_Witness ==
    /\ EriDone
    /\ eri_in.rule_set =
          ERIRuleSet(100000, 1000, 2500,
                     <<ThresholdRule("significant_wave_height", 10, 20, 10, "max"),
                       ThresholdRule("visibility", 50, 20, 10, "min")>>)
    /\ Len(eri_in.timeseries) = 1
    /\ Len(eri_in.timeseries[1].measurements) = 2
    /\ FindMeasurement(eri_in.timeseries[1], "significant_wave_height").value = 5
    /\ FindMeasurement(eri_in.timeseries[1], "visibility").value = 60
    /\ eri_out.points[1].score = 100000
    /\ ComputeEriPoint(WithValue(eri_in.timeseries[1], "significant_wave_height", 20),
                       eri_in.rule_set).score = 75000
    /\ ComputeEriPoint(WithValue(eri_in.timeseries[1], "visibility", 20),
                       eri_in.rule_set).score = 75000

(***************************************************************************)
(* Properties of apply_quality_controls.                                   *)
(***************************************************************************)
QcDone == qc_out # None
QcTwice == qc_again # None

\* How many values the series holds for the variable.
SampleCount(timeseries, variable) ==
    Cardinality({<<i, j>> \in (1..Len(timeseries)) \X (1..2) :
                    /\ j <= Len(timeseries[i].measurements)
                    /\ timeseries[i].measurements[j].variable = variable})

\* The value clipped to the caller's physical bound of its variable, if any.
PhysicallyClipped(value, variable) ==
    IF variable \notin DOMAIN qc_in.physical_bounds THEN value
    ELSE LET lo == qc_in.physical_bounds[variable][1]
             hi == qc_in.physical_bounds[variable][2]
         IN IF lo # None /\ value < lo.v THEN lo.v
            ELSE IF hi # None /\ value > hi.v THEN hi.v
            ELSE value

\* C14: quality control applied to its own output, with the same bounds and
\* multiplier, returns the values and flags of the first application.
C14_QcIdempotent ==
    QcTwice =>
        \A i \in 1..Len(qc_out.points) :
            \A j \in 1..Len(qc_out.points[i].measurements) :
                /\ qc_again.points[i].measurements[j].value
                    = qc_out.points[i].measurements[j].value
                /\ qc_again.points[i].measurements[j].quality_flag
                    = qc_out.points[i].measurements[j].quality_flag

\* C15: for a variable with fewer than 4 values across the whole series no
\* statistical clipping is applied: each output value is the input value
\* clipped to the caller's physical bound only, and the input value itself
\* when the caller gives no physical bound for the variable.
C15_NoIqrUnderFour ==
    QcDone =>
        \A i \in 1..Len(qc_in.timeseries) :
            \A j \in 1..Len(qc_in.timeseries[i].measurements) :
                LET m == qc_in.timeseries[i].measurements[j] IN
                SampleCount(qc_in.timeseries, m.variable) < 4
                    => qc_out.points[i].measurements[j].value
                        = PhysicallyClipped(m.value, m.variable)

C15_Witness ==
    /\ QcDone
    /\ Len(qc_in.timeseries) = 5
    /\ SampleCount(qc_in.timeseries, "wind_speed") = 3
    /\ SampleCount(qc_in.timeseries, "significant_wave_height") = 5
    /\ "wind_speed" \in DOMAIN qc_in.physical_bounds
    /\ qc_in.timeseries[1].measurements[2].value = 100 * QcUnit
    /\ qc_out.points[1].measurements[2].value = 200 * QcUnit
    /\ qc_out.points[1].measurements[2].quality_flag = "clipped"

\* The value respects the bound: not below a minimum, not above a maximum,
\* where one is given.
Inside(value, bound) ==
    /\ (bound[1].kind = "num" => bound[1].v <= value)
    /\ (bound[2].kind = "num" => value <= bound[2].v)

\* C22: every output value lies inside the caller's physical bound of its
\* variable and inside the IQR bound computed from the input series for its
\* variable, for every series and every pair of bounds.
C22_WithinBothBounds ==
    QcDone =>
        \A i \in 1..Len(qc_out.points) :
            \A j \in 1..Len(qc_out.points[i].measurements) :
                LET m == qc_out.points[i].measurements[j] IN
                /\ Inside(m.value, PhysicalBound(qc_in.physical_bounds, m.variable))
                /\ Inside(m.value,
                          ComputeIqrBounds(ValuesOf(qc_in.timeseries, m.variable),
                                           qc_in.iqr_multiplier))

(***************************************************************************)
(* Properties of weighted_ensemble.                                        *)
(***************************************************************************)
EnsDone == ens_out # None

\* The measurements of the variable at the timestamp that come from a source
\* with a configured weight, as (series, point, measurement) positions.
Contributors(timestamp, variable) ==
    LET sl == ens_in.series_list IN
    {c \in (1..Len(sl)) \X (1..2) \X (1..2) :
        /\ c[2] <= Len(sl[c[1]])
        /\ c[3] <= Len(sl[c[1]][c[2]].measurements)
        /\ sl[c[1]][c[2]].timestamp = timestamp
        /\ sl[c[1]][c[2]].metadata.source \in DOMAIN ens_in.weights
        /\ sl[c[1]][c[2]].measurements[c[3]].variable = variable}

ContributedValue(c) == ens_in.series_list[c[1]][c[2]].measurements[c[3]].value
ContributedWeight(c) == ens_norm.of[ens_in.series_list[c[1]][c[2]].metadata.source]

RECURSIVE TotalWeight(_)
TotalWeight(cs) ==
    IF cs = {} THEN 0
    ELSE LET c == CHOOSE x \in cs : TRUE
         IN ContributedWeight(c) + TotalWeight(cs \ {c})

RECURSIVE TotalWeighted(_)
TotalWeighted(cs) ==
    IF cs = {} THEN 0
    ELSE LET c == CHOOSE x \in cs : TRUE
         IN ContributedValue(c) * ContributedWeight(c) + TotalWeighted(cs \ {c})

\* C16: for a weight mapping whose sum is not zero the normalized weights sum
\* to 1; a mapping whose sum is zero makes weighted_ensemble raise ValueError.
C16_WeightsSumToOne ==
    EnsDone =>
        IF SumValues(ens_in.weights) # 0
        THEN ens_norm.kind = "weights" /\ SumValues(ens_norm.of) = 10000
        ELSE ens_out = Raised("ValueError")

\* C17: for a weight mapping with non-zero sum every value of an output point
\* is the weighted average of the contributing measurements of its variable
\* at its timestamp, the weights summed over those contributors only, and it
\* lies between the least and the greatest contributing value.
C17_ConvexCombination ==
    (EnsDone /\ SumValues(ens_in.weights) # 0) =>
        /\ ens_out.kind = "timeseries"
        /\ \A i \in 1..Len(ens_out.points) :
             \A j \in 1..Len(ens_out.points[i].measurements) :
                LET m == ens_out.points[i].measurements[j]
                    cs == Contributors(ens_out.points[i].timestamp, m.variable)
                IN /\ cs # {}
                   /\ TotalWeight(cs) # 0
                   /\ m.value = Quotient(TotalWeighted(cs), TotalWeight(cs))
                   /\ \E c \in cs : ContributedValue(c) * m.value.den <= m.value.num
                   /\ \E c \in cs : ContributedValue(c) * m.value.den >= m.value.num

\* The quality flags of the contributing measurements.
ContributedFlags(cs) ==
    {ens_in.series_list[c[1]][c[2]].measurements[c[3]].quality_flag : c \in cs}

\* C24: the flag of each output measurement is "clipped" if a contributing
\* measurement of its variable at its timestamp was clipped, otherwise
\* "imputed" if one was imputed, otherwise "raw"; points of a source without
\* a configured weight contribute neither values nor flags.
C24_FlagPropagation ==
    (EnsDone /\ ens_out.kind = "timeseries") =>
        \A i \in 1..Len(ens_out.points) :
            \A j \in 1..Len(ens_out.points[i].measurements) :
                LET m == ens_out.points[i].measurements[j]
                    cs == Contributors(ens_out.points[i].timestamp, m.variable)
                    flags == ContributedFlags(cs)
                IN /\ cs # {}
                   /\ m.quality_flag =
                        IF "clipped" \in flags THEN "clipped"
                        ELSE IF "imputed" \in flags THEN "imputed"
                        ELSE "raw"
                   /\ m.value = Quotient(TotalWeighted(cs), TotalWeight(cs))

C24_Witness ==
    /\ EnsDone
    /\ ens_out.kind = "timeseries"
    /\ Len(ens_in.series_list) = 3
    /\ DOMAIN ens_in.weights = {"stormglass", "open-meteo"}
    /\ ens_in.series_list[3][1].metadata.source = "noaa"
    /\ ens_in.series_list[3][1].measurements[1].quality_flag = "imputed"
    /\ ens_out.points[1].measurements[1].variable = "significant_wave_height"
    /\ ens_out.points[1].measurements[1].quality_flag = "clipped"
    /\ ens_out.points[1].measurements[2].variable = "wind_speed"
    /\ ens_out.points[1].measurements[2].quality_flag = "raw"
    /\ ens_out.points[1].measurements[2].value = Quotient(500, 1)

(***************************************************************************)
(* Properties of apply_bias_correction.                                    *)
(***************************************************************************)
BiasDone == bias_out # None

\* The values have zero standard deviation: none, one, or all equal.
ZeroDeviation(values) ==
    \A a \in 1..Len(values) : \A b \in 1..Len(values) : values[a] = values[b]

\* The values of the variable in the input series, point after point.
SeriesValues(variable) ==
    LET at == {<<i, j>> \in (1..Len(bias_in.timeseries)) \X (1..2) :
                  /\ j <= Len(bias_in.timeseries[i].measurements)
                  /\ bias_in.timeseries[i].measurements[j].variable = variable}
    IN {bias_in.timeseries[c[1]].measurements[c[2]].value : c \in at}

\* C18: with enabled = false the series returned is structurally equal to the
\* input, whatever the series and the background: same points, values,
\* quality flags and metadata, the bias_corrected flag included.
C18_DisabledIsIdentity ==
    (BiasDone /\ ~bias_in.enabled) =>
        /\ bias_out.kind = "timeseries"
        /\ bias_out.points = bias_in.timeseries

C18_Witness ==
    /\ BiasDone
    /\ ~bias_in.enabled
    /\ Len(bias_in.timeseries) = MaxBiasPoints
    /\ Cardinality(SeriesValues("significant_wave_height")) = 2
    /\ "significant_wave_height" \in DOMAIN bias_in.background
    /\ Len(bias_in.background["significant_wave_height"]) = 3
    /\ ~bias_out.points[1].metadata.bias_corrected
    /\ bias_out.points[MaxBiasPoints].measurements[1].quality_flag = "clipped"

\* C19: with enabled = true, for a variable whose series values have zero
\* standard deviation (a single value included) or whose background values
\* have zero standard deviation (an empty or absent background included),
\* every corrected value equals the original value, and the call raises no
\* ZeroDivisionError.
C19_ZeroVarianceNoOp ==
    (BiasDone /\ bias_in.enabled) =>
        /\ bias_out.kind = "timeseries"
        /\ \A i \in 1..Len(bias_in.timeseries) :
             \A j \in 1..Len(bias_in.timeseries[i].measurements) :
                LET m == bias_in.timeseries[i].measurements[j] IN
                (\/ Cardinality(SeriesValues(m.variable)) <= 1
                 \/ m.variable \notin DOMAIN bias_in.background
                 \/ ZeroDeviation(bias_in.background[m.variable]))
                    => bias_out.points[i].measurements[j].value = m.value

C19_Witness ==
    /\ BiasDone
    /\ bias_in.enabled
    /\ Len(bias_in.timeseries) = MaxBiasPoints
    /\ Cardinality(SeriesValues("significant_wave_height")) = 2
    /\ Cardinality(SeriesValues("wind_speed")) = 1
    /\ "wind_speed" \in DOMAIN bias_in.background
    /\ bias_out.kind = "timeseries"
    /\ bias_out.points[1].measurements[2].value = 5000
    /\ bias_out.points[1].measurements[1].value
        # bias_in.timeseries[1].measurements[1].value

====
